---------------------------- MODULE Spec2Model ----------------------------
(***************************************************************************)
(* Testfolio front end (frontend/src/App.jsx): the App component's state,  *)
(* its event handlers and effects, and the pure helpers they call.         *)
(*                                                                         *)
(* JavaScript numbers are modelled as pairs <<n, d>>: the rational n/d in  *)
(* lowest terms with d > 0, or, with d = 0, the three non-finite values    *)
(* NaN = <<0,0>>, +Infinity = <<1,0>> and -Infinity = <<-1,0>>.  Rounding  *)
(* of finite arithmetic is not modelled: finite results are exact.         *)
(*                                                                         *)
(* A JavaScript value that may be null is modelled as a sequence of length *)
(* 0 (null / undefined / absent) or 1 (the value).                         *)
(***************************************************************************)
EXTENDS Integers, Sequences, FiniteSets, TLC

---------------------------------------------------------------------------
(* Bounds of the model *)

\* longest weights list handed to normalizeWeights under SpecNormalize
MaxLen == 3
\* largest n handed to normalizeWeights under SpecNormalize
MaxN == 3

---------------------------------------------------------------------------
(* JavaScript numbers *)

Abs(x) == IF x < 0 THEN -x ELSE x

RECURSIVE GCD(_, _)
GCD(a, b) == IF b = 0 THEN a ELSE GCD(b, a % b)

\* the number n/d for integers n, d with d # 0, in lowest terms
Rat(n, d) ==
    LET g == GCD(Abs(n), Abs(d))
        s == IF d < 0 THEN -1 ELSE 1
    IN  <<(s * n) \div g, (s * d) \div g>>

Num(k) == <<k, 1>>
NaN == <<0, 0>>
PosInf == <<1, 0>>
NegInf == <<-1, 0>>

IsNaN(x) == x = NaN
IsFinite(x) == x[2] # 0
Sign(x) == IF x[1] > 0 THEN 1 ELSE IF x[1] < 0 THEN -1 ELSE 0

\* x + y
JsAdd(x, y) ==
    IF IsNaN(x) \/ IsNaN(y) THEN NaN
    ELSE IF ~IsFinite(x) /\ ~IsFinite(y) THEN (IF x = y THEN x ELSE NaN)
    ELSE IF ~IsFinite(x) THEN x
    ELSE IF ~IsFinite(y) THEN y
    ELSE Rat(x[1] * y[2] + y[1] * x[2], x[2] * y[2])

\* x / y (the sign of a zero is not modelled: x / 0 takes the sign of x)
JsDiv(x, y) ==
    IF IsNaN(x) \/ IsNaN(y) THEN NaN
    ELSE IF ~IsFinite(x) /\ ~IsFinite(y) THEN NaN
    ELSE IF ~IsFinite(x) THEN (IF Sign(x) * Sign(y) < 0 THEN NegInf ELSE PosInf)
    ELSE IF ~IsFinite(y) THEN Num(0)
    ELSE IF y[1] = 0 THEN (IF x[1] = 0 THEN NaN
                           ELSE IF x[1] > 0 THEN PosInf ELSE NegInf)
    ELSE Rat(x[1] * y[2], x[2] * y[1])

\* x <= y (false when either is NaN)
JsLe(x, y) ==
    IF IsNaN(x) \/ IsNaN(y) THEN FALSE
    ELSE IF x = y THEN TRUE
    ELSE IF ~IsFinite(x) THEN x = NegInf
    ELSE IF ~IsFinite(y) THEN y = PosInf
    ELSE x[1] * y[2] <= y[1] * x[2]

JsLt(x, y) == JsLe(x, y) /\ x # y

\* Math.max(0, x)
MathMax0(x) == IF IsNaN(x) THEN NaN ELSE IF JsLe(x, Num(0)) THEN Num(0) ELSE x

\* x || 0 for a number x: 0 and NaN are falsy
OrZero(x) == IF IsNaN(x) \/ x = Num(0) THEN Num(0) ELSE x

\* a.reduce((a, b) => a + b, 0)
RECURSIVE SumNums(_)
SumNums(s) == IF s = <<>> THEN Num(0)
              ELSE JsAdd(SumNums(SubSeq(s, 1, Len(s) - 1)), s[Len(s)])

---------------------------------------------------------------------------
(* JavaScript values found in a weights list.  A value is <<tag, n, d>>:   *)
(* a number n/d ("num"); a string ("str") given by the number the string   *)
(* reads as, NaN for text that is no numeric literal; null; undefined (a   *)
(* hole, or an entry a JSON file cannot carry).                            *)

JsNum(x) == <<"num", x[1], x[2]>>
JsStr(x) == <<"str", x[1], x[2]>>
JsNull == <<"null", 0, 1>>
JsUndef == <<"undef", 0, 0>>

\* Number(v)
ToNumber(v) ==
    CASE v[1] = "num" -> <<v[2], v[3]>>
      [] v[1] = "str" -> <<v[2], v[3]>>
      [] v[1] = "null" -> Num(0)
      [] OTHER -> NaN

Min(a, b) == IF a < b THEN a ELSE b

\* Array(n).fill(v)
Fill(n, v) == [i \in 1..n |-> v]

ClampWeight(x) == MathMax0(OrZero(ToNumber(x)))

\* normalizeWeights(weights, n): weights is a list of JavaScript values
\* (`weights || []` has been applied by the caller's model: a missing list
\* is the empty list), n a length
normalizeWeights(weights, n) ==
    IF n = 0 THEN <<>>
    ELSE LET w0 == [i \in 1..Min(Len(weights), n) |-> ClampWeight(weights[i])]
             w == [i \in 1..n |-> IF i <= Len(w0) THEN w0[i] ELSE Num(0)]
             sum == SumNums(w)
         IN  IF JsLe(sum, Num(0)) THEN Fill(n, JsDiv(Num(1), Num(n)))
             ELSE [i \in 1..n |-> JsDiv(w[i], sum)]

\* a valid weight vector of length n: n finite entries >= 0 that sum to 1
ValidWeights(w, n) ==
    /\ Len(w) = n
    /\ \A i \in 1..n : IsFinite(w[i]) /\ JsLe(Num(0), w[i])
    /\ SumNums(w) = Num(1)

---------------------------------------------------------------------------
(* Strings that the code parses are sequences of one-character strings.    *)

Whitespace == {" "}
Digits == {"0", "1", "2", "3", "4", "5", "6", "7", "8", "9"}
DigitVal(c) ==
    CASE c = "0" -> 0 [] c = "1" -> 1 [] c = "2" -> 2 [] c = "3" -> 3
      [] c = "4" -> 4 [] c = "5" -> 5 [] c = "6" -> 6 [] c = "7" -> 7
      [] c = "8" -> 8 [] OTHER -> 9

RECURSIVE Pow10(_)
Pow10(k) == IF k = 0 THEN 1 ELSE 10 * Pow10(k - 1)

\* the value of a sequence of digits (0 for the empty one)
RECURSIVE DigitsValue(_)
DigitsValue(s) == IF s = <<>> THEN 0
                  ELSE 10 * DigitsValue(SubSeq(s, 1, Len(s) - 1)) + DigitVal(s[Len(s)])

\* the number of leading characters of s that are in set C
RECURSIVE PrefixLen(_, _)
PrefixLen(s, C) == IF s = <<>> \/ s[1] \notin C THEN 0 ELSE 1 + PrefixLen(Tail(s), C)

Drop(s, k) == SubSeq(s, k + 1, Len(s))
Take(s, k) == SubSeq(s, 1, k)

TrimStart(s) == Drop(s, PrefixLen(s, Whitespace))
RECURSIVE TrimEnd(_)
TrimEnd(s) == IF s = <<>> \/ s[Len(s)] \notin Whitespace THEN s
              ELSE TrimEnd(Take(s, Len(s) - 1))
\* s.trim()
Trim(s) == TrimEnd(TrimStart(s))

UpperChar(c) == CASE c = "a" -> "A" [] c = "b" -> "B" [] OTHER -> c
\* s.toUpperCase()
ToUpperCase(s) == [i \in 1..Len(s) |-> UpperChar(s[i])]

\* The decimal literal at the start of s, as parseFloat and Number read it:
\* an optional sign, digits, an optional "." and digits, with at least one
\* digit.  (Exponents, "Infinity" and hex are outside the modelled alphabet.)
\* <<length of the literal, its value>>; length 0 when there is none.
FloatPrefix(s) ==
    LET signLen == IF s # <<>> /\ s[1] \in {"-", "+"} THEN 1 ELSE 0
        neg == signLen = 1 /\ s[1] = "-"
        r1 == Drop(s, signLen)
        ipLen == PrefixLen(r1, Digits)
        r2 == Drop(r1, ipLen)
        hasDot == r2 # <<>> /\ r2[1] = "."
        fpLen == IF hasDot THEN PrefixLen(Tail(r2), Digits) ELSE 0
        ip == Take(r1, ipLen)
        fp == IF hasDot THEN Take(Tail(r2), fpLen) ELSE <<>>
        mag == Rat(DigitsValue(ip) * Pow10(fpLen) + DigitsValue(fp), Pow10(fpLen))
        val == IF neg THEN <<-mag[1], mag[2]>> ELSE mag
    IN  IF ipLen + fpLen = 0 THEN <<0, NaN>>
        ELSE <<signLen + ipLen + (IF hasDot THEN 1 + fpLen ELSE 0), val>>

\* parseFloat(s)
parseFloat(s) == FloatPrefix(TrimStart(s))[2]

\* Number(s) for a string s: 0 for a blank string, the literal's value when
\* the whole trimmed string is one, NaN otherwise
NumberOfString(s) ==
    LET t == Trim(s)
        p == FloatPrefix(t)
    IN  IF t = <<>> THEN Num(0)
        ELSE IF p[1] = Len(t) THEN p[2] ELSE NaN

\* what an <input type="number"> hands to onChange: the empty string or a
\* valid floating-point number (HTML: an optional "-", digits, optionally
\* "." and digits; or "." and digits)
IsValidFloat(s) ==
    LET signLen == IF s # <<>> /\ s[1] = "-" THEN 1 ELSE 0
        r1 == Drop(s, signLen)
        ipLen == PrefixLen(r1, Digits)
        r2 == Drop(r1, ipLen)
    IN  \/ ipLen > 0 /\ r2 = <<>>
        \/ /\ r2 # <<>> /\ r2[1] = "."
           /\ Len(r2) > 1
           /\ PrefixLen(Tail(r2), Digits) = Len(r2) - 1

\* every string over alphabet C of length at most k
StringsUpTo(C, k) == UNION {[1..m -> C] : m \in 0..k}

---------------------------------------------------------------------------
(* Constants of App.jsx *)

REBALANCE_OPTIONS == {"daily", "weekly", "monthly", "quarterly", "yearly"}

VTI == <<"V", "T", "I">>
BND == <<"B", "N", "D">>
defaultPortfolio ==
    [name |-> "Portfolio 1", tickers |-> <<VTI, BND>>,
     weights |-> <<JsNum(Rat(6, 10)), JsNum(Rat(4, 10))>>]

DefaultStartDate == "2015-01-01"
\* new Date().toISOString().slice(0, 10) on the day the page is opened
Today == "2026-01-15"
DefaultStartingValue == Num(100000)

ErrNoPortfolio == "Add at least one portfolio with at least one ticker."
ErrInvalidFile == "Invalid file. Use a previously saved Testfolio JSON."
ErrTwoTickers == "Enter at least 2 tickers"
ErrOneTicker == "Enter at least one ticker"
\* e.message of the error a rejected fetch, a rejected res.json() or a
\* property read of null throws: a non-empty string
MsgFetchFailed == "Failed to fetch"
MsgBadJson == "Unexpected token < in JSON"
MsgNullData == "Cannot read properties of null (reading 'error')"

---------------------------------------------------------------------------
(* Response bodies.  A parsed body is a record: error is the body's error  *)
(* field (<<>> when the body has none, <<"">> for an empty message) and    *)
(* metrics tells whether the body has a truthy metrics field.              *)

OkData == [error |-> <<>>, metrics |-> TRUE]
BareData == [error |-> <<>>, metrics |-> FALSE]
ErrData(msg) == [error |-> <<msg>>, metrics |-> FALSE]

\* what a fetch can come back with: a parsed body, the body `null`, a body
\* that is no JSON (res.json() rejects), or no response (fetch rejects)
JsonResp(d) == [kind |-> "json", data |-> d]
NullResp == [kind |-> "null", data |-> BareData]
UnparsableResp == [kind |-> "unparsable", data |-> BareData]
FailedResp == [kind |-> "failed", data |-> BareData]

\* Truthiness of data.error: a missing field and the empty string are falsy
Truthy(opt) == opt # <<>> /\ opt[1] # ""

---------------------------------------------------------------------------
(* Saved snapshots: the content of localStorage's item or of a chosen      *)
(* file, as JSON.parse reads it.  kind is "object" for a JSON object,      *)
(* "null" for the text null, "prim" for a JSON number, string or boolean,  *)
(* "invalid" for text that is no JSON.  Every field of an object is a      *)
(* sequence of length 0 (absent or null) or 1.  savedAt is written and     *)
(* never read, and is left out.                                            *)

NoFields ==
    [portfolios |-> <<>>, startDate |-> <<>>, endDate |-> <<>>,
     startingValue |-> <<>>, rebalanceFreq |-> <<>>, adjustInflation |-> <<>>,
     result |-> <<>>]
ObjectSnap(f) == [kind |-> "object", f |-> f]
NullSnap == [kind |-> "null", f |-> NoFields]
PrimSnap == [kind |-> "prim", f |-> NoFields]
InvalidSnap == [kind |-> "invalid", f |-> NoFields]

\* JSON.stringify then JSON.parse of one entry of a weights list: a
\* non-finite number and undefined are written as null
JsonWeight(v) ==
    IF v[1] = "undef" \/ (v[1] = "num" /\ v[3] = 0) THEN JsNull ELSE v

JsonPortfolio(p) ==
    [name |-> p.name, tickers |-> p.tickers,
     weights |-> [i \in 1..Len(p.weights) |-> JsonWeight(p.weights[i])]]

\* The object the persist effect and handleSaveToFile build from the state
\* v, as it reads back after JSON.stringify and JSON.parse
SnapshotOf(v) ==
    ObjectSnap(
      [portfolios |-> <<[i \in 1..Len(v.portfolios) |-> JsonPortfolio(v.portfolios[i])]>>,
       startDate |-> <<v.startDate>>,
       endDate |-> <<v.endDate>>,
       startingValue |-> IF IsFinite(v.startingValue) THEN <<JsNum(v.startingValue)>>
                         ELSE <<>>,
       rebalanceFreq |-> <<v.rebalanceFreq>>,
       adjustInflation |-> <<v.adjustInflation>>,
       result |-> IF v.result # <<>> /\ v.result[1].metrics THEN v.result ELSE <<>>])

\* loadFromStorage(): the parsed item, or null (<<>>)
loadFromStorage(item) ==
    IF item = <<>> THEN <<>>
    ELSE IF item[1].kind = "object" THEN <<item[1].f>>
    ELSE <<>>

\* a variant of OrDefaultValue that ignores what was saved
OrDefaultValue_always(x) == DefaultStartingValue

\* x || 100000 for a number x
OrDefaultValue(x) == IF IsNaN(x) \/ x = Num(0) THEN DefaultStartingValue ELSE x

\* The setters both loaders call for the fields of the saved object d, on
\* the state v (the result field is handled by each loader)
ApplySaved(v, d) ==
    [portfolios |-> IF d.portfolios # <<>> /\ Len(d.portfolios[1]) > 0
                    THEN d.portfolios[1] ELSE v.portfolios,
     startDate |-> IF d.startDate # <<>> /\ d.startDate[1] # ""
                   THEN d.startDate[1] ELSE v.startDate,
     endDate |-> IF d.endDate # <<>> /\ d.endDate[1] # ""
                 THEN d.endDate[1] ELSE v.endDate,
     startingValue |-> IF d.startingValue # <<>> /\ d.startingValue[1][1] # "null"
                                                  /\ d.startingValue[1][1] # "undef"
                       THEN OrDefaultValue(ToNumber(d.startingValue[1]))
                       ELSE v.startingValue,
     rebalanceFreq |-> IF d.rebalanceFreq # <<>> /\ d.rebalanceFreq[1] # ""
                       THEN d.rebalanceFreq[1] ELSE v.rebalanceFreq,
     adjustInflation |-> IF d.adjustInflation # <<>>
                         THEN d.adjustInflation[1] ELSE v.adjustInflation,
     result |-> v.result]

\* The load effect's setters for the saved object d
MountRestore(v, d) ==
    [ApplySaved(v, d) EXCEPT
       !.result = IF d.result # <<>> /\ d.result[1].metrics THEN d.result ELSE v.result]

\* handleLoadFromFile's setters for the parsed object d
FileRestore(v, d) ==
    [ApplySaved(v, d) EXCEPT
       !.result = IF d.result # <<>> /\ d.result[1].metrics THEN d.result ELSE <<>>]

---------------------------------------------------------------------------
(* The state *)

VARIABLES
    \* the page: "unmounted" (before the first render's effects), "mounting"
    \* (the mount effects have run, their setState calls await the
    \* re-render), "ready"
    phase,
    \* hasLoadedFromStorage.current
    hasLoadedFromStorage,
    \* the object the load effect read, until the re-render applies it
    queued,
    \* useState of App, lines 76-84
    startDate, endDate, startingValue, rebalanceFreq, adjustInflation,
    portfolios, loading, result, error,
    \* localStorage's item 'testfolio_saved' (<<>> when there is none)
    storage,
    \* whether a /api/backtest request awaits its response
    backtestPending,
    \* the request this step puts on the wire (<<>> when it sends none)
    wire,
    \* the file this step hands to the browser for download
    download,
    \* Portfolio Optimizer and Efficient Frontier, lines 91-96
    optimizerTickers, optimizerResult, optimizerLoading, optimizerPending,
    frontierTickers, frontierResult, frontierLoading, frontierPending,
    \* Rebalancing Sensitivity, lines 97-100
    rebalTickers, rebalWeights, rebalResult, rebalLoading, rebalPending,
    \* TVM calculator, lines 101-106, and the responses on their way back
    tvmPv, tvmFv, tvmRate, tvmNper, tvmPmt, tvmResult, tvmNet,
    \* the class of the /api/tvm request sent last (<<>> before the first)
    tvmLast,
    \* Asset Analyzer, lines 88-90, and whether a /api/asset_analyzer request
    \* awaits its response
    analyzerTicker, analyzerResult, analyzerLoading, analyzerPending,
    \* the arguments and the result of a call of normalizeWeights
    nwWeights, nwN, nwOut,
    \* the number of edits made to the portfolios list so far
    edits,
    \* import.meta.env.VITE_API_URL (<<>> when undefined), window.location's
    \* hostname (<<>> when there is no window) and the result of getApiBase()
    viteApiUrl, hostname, API,
    \* the engine's Rebalancing Simulator for one portfolio: "idle", "running",
    \* "done" or "failed"; the request's frequency, target weights and starting value;
    \* the current date (an index of SimDates), the prices on the first and on
    \* the current date, the dollar amount held per ticker, the equity curve
    simPhase, simFreq, simWeights, simStart, simDate, simPrice0, simPrice,
    amounts, curve,
    \* the max drawdown computed from the equity curve (<<>> before that)
    drawdown,
    \* an iterative solve of the engine: "optimizer" or "rate"; "idle",
    \* "iterating", "converged" or "failed"; the iterations done; the rate
    \* bracket <<lo, hi>> and the cash flows <<pv, fv>> of a rate search
    solveKind, solvePhase, iterations, bracket, cashFlows

savedVars == <<startDate, endDate, startingValue, rebalanceFreq, adjustInflation,
               portfolios, result>>
pageVars == <<phase, hasLoadedFromStorage, queued, storage>>
backtestVars == <<loading, backtestPending>>
optimizerVars == <<optimizerTickers, optimizerResult, optimizerLoading, optimizerPending>>
frontierVars == <<frontierTickers, frontierResult, frontierLoading, frontierPending>>
rebalVars == <<rebalTickers, rebalWeights, rebalResult, rebalLoading, rebalPending>>
tvmFields == <<tvmPv, tvmFv, tvmRate, tvmNper, tvmPmt>>
tvmVars == <<tvmFields, tvmResult, tvmNet, tvmLast>>
nwVars == <<nwWeights, nwN, nwOut>>
apiVars == <<viteApiUrl, hostname, API>>
simVars == <<simPhase, simFreq, simWeights, simStart, simDate, simPrice0, simPrice,
             amounts, curve>>
solveVars == <<solveKind, solvePhase, iterations, bracket, cashFlows>>
engineVars == <<simVars, drawdown, solveVars>>
analyzerVars == <<analyzerTicker, analyzerResult, analyzerLoading, analyzerPending>>
auxVars == <<nwVars, edits, apiVars, engineVars, analyzerVars>>
vars == <<savedVars, pageVars, backtestVars, error, wire, download,
          optimizerVars, frontierVars, rebalVars, tvmVars, auxVars>>

\* the state the persist effect depends on and saves
View ==
    [portfolios |-> portfolios, startDate |-> startDate, endDate |-> endDate,
     startingValue |-> startingValue, rebalanceFreq |-> rebalanceFreq,
     adjustInflation |-> adjustInflation, result |-> result]

\* the first render's state
DefaultView ==
    [portfolios |-> <<defaultPortfolio>>, startDate |-> DefaultStartDate,
     endDate |-> Today, startingValue |-> DefaultStartingValue,
     rebalanceFreq |-> "yearly", adjustInflation |-> FALSE, result |-> <<>>]

SetView(r) ==
    /\ portfolios' = r.portfolios
    /\ startDate' = r.startDate
    /\ endDate' = r.endDate
    /\ startingValue' = r.startingValue
    /\ rebalanceFreq' = r.rebalanceFreq
    /\ adjustInflation' = r.adjustInflation
    /\ result' = r.result

\* The persist effect (lines 124-136), run after a render in which one of
\* its dependencies changed
PersistEffect ==
    storage' = IF hasLoadedFromStorage /\ View' # View THEN <<SnapshotOf(View')>>
               ELSE storage

---------------------------------------------------------------------------
(* Inputs *)

\* a portfolio as a hand-edited file can hold it: 1e999 reads as Infinity
UnboundedPortfolio ==
    [name |-> "Big", tickers |-> <<VTI, BND>>,
     weights |-> <<JsNum(PosInf), JsNum(Num(1))>>]
\* a saved portfolio with a blank ticker row and a typed negative weight
BlankRowPortfolio ==
    [name |-> "", tickers |-> <<<<>>, BND>>,
     weights |-> <<JsNum(Rat(-1, 2)), JsNum(Rat(1, 2))>>]

\* a file written by handleSaveToFile
SavedFile ==
    SnapshotOf([DefaultView EXCEPT !.portfolios = <<defaultPortfolio, BlankRowPortfolio>>,
                                   !.startDate = "2020-06-30",
                                   !.startingValue = Num(50),
                                   !.rebalanceFreq = "monthly",
                                   !.adjustInflation = TRUE,
                                   !.result = <<OkData>>])

\* the files a user can choose
FileSet ==
    { InvalidSnap, NullSnap, PrimSnap, ObjectSnap(NoFields), SavedFile,
      ObjectSnap([NoFields EXCEPT !.rebalanceFreq = <<"hourly">>]),
      ObjectSnap([NoFields EXCEPT !.startingValue = <<JsNum(Num(0))>>]),
      ObjectSnap([NoFields EXCEPT !.startingValue = <<JsStr(NaN)>>,
                                  !.result = <<BareData>>]),
      ObjectSnap([NoFields EXCEPT !.portfolios = <<<<>>>>,
                                  !.adjustInflation = <<TRUE>>]),
      ObjectSnap([NoFields EXCEPT !.portfolios = <<<<UnboundedPortfolio>>>>]) }

\* what localStorage can hold when the page is opened: nothing, a snapshot
\* an earlier visit saved, or text that is no JSON
StoredItems == {<<>>, <<SavedFile>>, <<InvalidSnap>>}

\* what the date inputs can hand to onChange ('' when the field is cleared)
DateInputs == {"", "2020-06-30"}
\* what the 'Starting value' field (type=number) can hand to onChange
StartingValueInputs == {<<>>, <<"0">>, <<"-", "5">>, <<"5", "0">>}
\* the bodies a /api/backtest response can carry
BacktestResponses ==
    { JsonResp(OkData), JsonResp(BareData), JsonResp(ErrData("No data for ticker")),
      JsonResp(ErrData("")), NullResp, UnparsableResp, FailedResp }

---------------------------------------------------------------------------
(* Initial state: the first render *)

\* 'VTI, BND, VXUS', 'VTI, BND' and '60, 40'
ThreeTickersText ==
    <<"V", "T", "I", ",", " ", "B", "N", "D", ",", " ", "V", "X", "U", "S">>
TwoTickersText == <<"V", "T", "I", ",", " ", "B", "N", "D">>
SixtyFortyText == <<"6", "0", ",", " ", "4", "0">>

InitTools ==
    /\ optimizerTickers = ThreeTickersText /\ optimizerResult = <<>>
    /\ optimizerLoading = FALSE /\ optimizerPending = FALSE
    /\ frontierTickers = ThreeTickersText /\ frontierResult = <<>>
    /\ frontierLoading = FALSE /\ frontierPending = FALSE
    /\ rebalTickers = TwoTickersText /\ rebalWeights = SixtyFortyText
    /\ rebalResult = <<>> /\ rebalLoading = FALSE /\ rebalPending = FALSE
    /\ tvmPv = <<>> /\ tvmFv = <<>> /\ tvmRate = <<>> /\ tvmNper = <<>>
    /\ tvmPmt = <<"0">> /\ tvmResult = <<>> /\ tvmNet = [c \in 0..2 |-> 0]
    /\ tvmLast = <<>>

\* a page served by the development server, with no VITE_API_URL
InitApi == viteApiUrl = <<>> /\ hostname = <<"localhost">> /\ API = <<>>

\* no simulation requested
InitSimIdle ==
    /\ simPhase = "idle" /\ simFreq = "yearly" /\ simWeights = <<Num(1)>>
    /\ simStart = Num(100) /\ simDate = 0 /\ simPrice0 = <<>> /\ simPrice = <<>>
    /\ amounts = <<>> /\ curve = <<>>

\* no solve requested
InitSolveIdle ==
    /\ solveKind = "rate" /\ solvePhase = "idle" /\ iterations = 0
    /\ bracket = <<>> /\ cashFlows = <<>>

InitEngine == InitSimIdle /\ drawdown = <<>> /\ InitSolveIdle

\* useState('SPY'), useState(null), useState(false), lines 88-90
InitAnalyzer ==
    /\ analyzerTicker = <<"S", "P", "Y">> /\ analyzerResult = <<>>
    /\ analyzerLoading = FALSE /\ analyzerPending = FALSE

InitAux ==
    /\ nwWeights = <<>> /\ nwN = 0 /\ nwOut = <<>> /\ edits = 0 /\ InitApi
    /\ InitEngine /\ InitAnalyzer

InitApp ==
    /\ phase = "unmounted" /\ hasLoadedFromStorage = FALSE /\ queued = <<>>
    /\ portfolios = DefaultView.portfolios
    /\ startDate = DefaultView.startDate /\ endDate = DefaultView.endDate
    /\ startingValue = DefaultView.startingValue
    /\ rebalanceFreq = DefaultView.rebalanceFreq
    /\ adjustInflation = DefaultView.adjustInflation
    /\ result = DefaultView.result
    /\ loading = FALSE /\ error = <<>> /\ backtestPending = FALSE
    /\ wire = <<>> /\ download = <<>>
    /\ InitTools

---------------------------------------------------------------------------
(* Mount, reload *)

toolVars == <<optimizerVars, frontierVars, rebalVars, tvmVars>>

\* a run button's disabled attribute, disabled={loading} (lines 574, 656,
\* 690, 714, 745): a disabled button takes no click
Disabled_never(flag) == FALSE
Disabled(flag) == flag


\* The first commit's effects: the load effect (lines 109-121) reads the
\* item, queues its setters and sets the ref; the persist effect (lines
\* 124-136) of the same commit then runs with the first render's state.
MountEffects ==
    /\ phase = "unmounted"
    /\ queued' = loadFromStorage(storage)
    /\ hasLoadedFromStorage' = TRUE
    /\ storage' = <<SnapshotOf(View)>>
    /\ phase' = "mounting"
    /\ wire' = <<>> /\ download' = <<>>
    /\ UNCHANGED <<savedVars, backtestVars, error, toolVars, auxVars>>

\* The re-render that applies the load effect's setters, and the persist
\* effect after it
MountRerender ==
    /\ phase = "mounting"
    /\ SetView(IF queued = <<>> THEN View ELSE MountRestore(View, queued[1]))
    /\ queued' = <<>>
    /\ phase' = "ready"
    /\ UNCHANGED hasLoadedFromStorage
    /\ PersistEffect
    /\ wire' = <<>> /\ download' = <<>>
    /\ UNCHANGED <<backtestVars, error, toolVars, auxVars>>

\* The user reloads the page: a new first render; localStorage is kept and
\* the old page's requests are dropped with it
Reload ==
    /\ phase = "ready"
    /\ phase' = "unmounted" /\ hasLoadedFromStorage' = FALSE /\ queued' = <<>>
    /\ SetView(DefaultView)
    /\ loading' = FALSE /\ error' = <<>> /\ backtestPending' = FALSE
    /\ wire' = <<>> /\ download' = <<>>
    /\ UNCHANGED <<storage, toolVars, auxVars>>

---------------------------------------------------------------------------
(* Parameters panel, lines 479-511 *)

\* what every handler of the ready page leaves alone unless it says otherwise
Quiet == wire' = <<>> /\ download' = <<>> /\ UNCHANGED <<phase, hasLoadedFromStorage, queued>>

SetStartDate(v) ==
    /\ phase = "ready"
    /\ SetView([View EXCEPT !.startDate = v])
    /\ PersistEffect /\ Quiet
    /\ UNCHANGED <<backtestVars, error, toolVars, auxVars>>

SetEndDate(v) ==
    /\ phase = "ready"
    /\ SetView([View EXCEPT !.endDate = v])
    /\ PersistEffect /\ Quiet
    /\ UNCHANGED <<backtestVars, error, toolVars, auxVars>>

\* onChange={(e) => setStartingValue(Number(e.target.value))}
SetStartingValue(text) ==
    /\ phase = "ready"
    /\ SetView([View EXCEPT !.startingValue = NumberOfString(text)])
    /\ PersistEffect /\ Quiet
    /\ UNCHANGED <<backtestVars, error, toolVars, auxVars>>

SetRebalanceFreq(v) ==
    /\ phase = "ready"
    /\ SetView([View EXCEPT !.rebalanceFreq = v])
    /\ PersistEffect /\ Quiet
    /\ UNCHANGED <<backtestVars, error, toolVars, auxVars>>

SetAdjustInflation(b) ==
    /\ phase = "ready"
    /\ SetView([View EXCEPT !.adjustInflation = b])
    /\ PersistEffect /\ Quiet
    /\ UNCHANGED <<backtestVars, error, toolVars, auxVars>>

---------------------------------------------------------------------------
(* Save to file, load from file *)

handleSaveToFile ==
    /\ phase = "ready"
    /\ download' = <<SnapshotOf(View)>>
    /\ wire' = <<>>
    /\ UNCHANGED <<savedVars, pageVars, backtestVars, error, toolVars, auxVars>>

\* reader.onload of handleLoadFromFile for the chosen file's content
handleLoadFromFile(file) ==
    /\ phase = "ready"
    /\ IF file.kind \in {"invalid", "null"}
       THEN \* JSON.parse throws, or data.portfolios throws on null (after
            \* setError(null)): the catch sets the error
            /\ error' = <<ErrInvalidFile>>
            /\ UNCHANGED savedVars
       ELSE /\ error' = <<>>
            /\ SetView(FileRestore(View, file.f))
    /\ PersistEffect /\ Quiet
    /\ UNCHANGED <<backtestVars, toolVars, auxVars>>

---------------------------------------------------------------------------
(* runBacktest, lines 209-248 *)

\* (p.tickers || []).filter(Boolean).map((t) => String(t).trim().toUpperCase())
PayloadTickers(p) ==
    LET kept == SelectSeq(p.tickers, LAMBDA t : t # <<>>)
    IN  [i \in 1..Len(kept) |-> ToUpperCase(Trim(kept[i]))]

\* a number as JSON.stringify writes it: null when it is not finite
JsonNumber(x) == IF IsFinite(x) THEN JsNum(x) ELSE JsNull

PayloadPortfolio(p) ==
    LET tickers == PayloadTickers(p)
        weights == IF Len(tickers) > 0 THEN normalizeWeights(p.weights, Len(tickers))
                   ELSE <<>>
    IN  [name |-> IF p.name = "" THEN "Portfolio" ELSE p.name,
         tickers |-> tickers,
         weights |-> [i \in 1..Len(weights) |-> JsonNumber(weights[i])]]

\* the body of the request, as JSON.stringify writes it
BacktestPayload(v) ==
    [portfolios |-> SelectSeq([i \in 1..Len(v.portfolios) |-> PayloadPortfolio(v.portfolios[i])],
                              LAMBDA p : Len(p.tickers) > 0),
     start_date |-> v.startDate,
     end_date |-> v.endDate,
     starting_value |-> JsonNumber(v.startingValue),
     rebalance_freq |-> v.rebalanceFreq,
     adjust_inflation |-> v.adjustInflation]

\* the click on Backtest (the button is disabled while loading): the part
\* of runBacktest up to the fetch
runBacktest ==
    /\ phase = "ready"
    /\ ~Disabled(loading)
    /\ LET payload == BacktestPayload(View)
       IN  IF Len(payload.portfolios) = 0
           THEN /\ error' = <<ErrNoPortfolio>>
                /\ loading' = FALSE
                /\ wire' = <<>>
                /\ UNCHANGED backtestPending
           ELSE /\ error' = <<>>
                /\ loading' = TRUE
                /\ wire' = <<[url |-> "/api/backtest", body |-> payload]>>
                /\ backtestPending' = TRUE
    /\ SetView([View EXCEPT !.result = <<>>])
    /\ PersistEffect
    /\ download' = <<>>
    /\ UNCHANGED <<phase, hasLoadedFromStorage, queued, toolVars, auxVars>>

\* the rest of runBacktest, once the fetch has settled with resp
BacktestResponse(resp) ==
    /\ phase = "ready"
    /\ backtestPending
    /\ backtestPending' = FALSE
    /\ loading' = FALSE
    /\ CASE resp.kind = "failed" ->
              error' = <<MsgFetchFailed>> /\ UNCHANGED savedVars
         [] resp.kind = "unparsable" ->
              error' = <<MsgBadJson>> /\ UNCHANGED savedVars
         [] resp.kind = "null" ->
              error' = <<MsgNullData>> /\ UNCHANGED savedVars
         [] OTHER ->
              IF Truthy(resp.data.error)
              THEN error' = resp.data.error /\ UNCHANGED savedVars
              ELSE /\ SetView([View EXCEPT !.result = <<resp.data>>])
                   /\ UNCHANGED error
    /\ PersistEffect /\ Quiet
    /\ UNCHANGED <<toolVars, auxVars>>

---------------------------------------------------------------------------
(* The backtester page *)

Init ==
    /\ InitApp
    /\ storage \in StoredItems
    /\ InitAux

Next ==
    \/ MountEffects
    \/ MountRerender
    \/ Reload
    \/ \E v \in DateInputs : SetStartDate(v)
    \/ \E v \in DateInputs : SetEndDate(v)
    \/ \E t \in StartingValueInputs : SetStartingValue(t)
    \/ \E v \in REBALANCE_OPTIONS : SetRebalanceFreq(v)
    \/ \E b \in BOOLEAN : SetAdjustInflation(b)
    \/ handleSaveToFile
    \/ \E f \in FileSet : handleLoadFromFile(f)
    \/ runBacktest
    \/ \E r \in BacktestResponses : BacktestResponse(r)

Spec == Init /\ [][Next]_vars

---------------------------------------------------------------------------
(* Claims checked on the backtester page (Spec) *)

\* C7: every completed runBacktest call that nothing else interleaved with
\* (result and error are still null when it ends) ends either with result
\* non-null and error null, for a response without an error field, or with
\* error non-null and result null, for every other response and for the empty
\* payload; a response carrying an error field never sets result.
C7_BacktestOutcomes ==
    [][/\ \A r \in BacktestResponses :
            (BacktestResponse(r) /\ result = <<>> /\ error = <<>>)
            => IF r.kind = "json" /\ r.data.error = <<>>
               THEN result' # <<>> /\ error' = <<>>
               ELSE error' # <<>> /\ result' = <<>>
       /\ (runBacktest /\ wire' = <<>>) => (error' # <<>> /\ result' = <<>>)]_vars

\* C8: in every reachable state rebalanceFreq is one of the five options, and
\* so is the rebalance_freq of every backtest request.
C8_RebalanceFreqIsOption ==
    /\ rebalanceFreq \in REBALANCE_OPTIONS
    /\ wire # <<>> => wire[1].body.rebalance_freq \in REBALANCE_OPTIONS

\* C9: every request sent carries a starting_value that is a number > 0.
C9_StartingValuePositive ==
    wire # <<>> =>
        LET sv == wire[1].body.starting_value
        IN  sv[1] = "num" /\ JsLt(Num(0), ToNumber(sv))

---------------------------------------------------------------------------
(* C10: save / load round trip *)

\* the state after a reload whose mount reads the snapshot written for v
MountRoundTrip(v) ==
    LET saved == loadFromStorage(<<SnapshotOf(v)>>)
    IN  IF saved = <<>> THEN DefaultView ELSE MountRestore(DefaultView, saved[1])

\* a state that differs from every saved state in each field a loader may skip
OtherView ==
    [portfolios |-> <<[name |-> "Other", tickers |-> <<VTI>>, weights |-> <<JsNum(Num(1))>>]>>,
     startDate |-> "1999-12-31", endDate |-> "1999-12-31",
     startingValue |-> Num(7), rebalanceFreq |-> "daily",
     adjustInflation |-> TRUE, result |-> <<BareData>>]

\* the state after handleLoadFromFile, in state t, of the file written for v
FileRoundTrip(v, t) == FileRestore(t, SnapshotOf(v).f)

RoundTrips(v) ==
    /\ MountRoundTrip(v) = v
    /\ \A t \in {DefaultView, OtherView, v} : FileRoundTrip(v, t) = v

Restorable(v) ==
    /\ Len(v.portfolios) > 0
    /\ \A i \in 1..Len(v.portfolios) :
         \A j \in 1..Len(v.portfolios[i].weights) :
            JsonWeight(v.portfolios[i].weights[j]) = v.portfolios[i].weights[j]
    /\ v.startDate # "" /\ v.endDate # ""
    /\ IsFinite(v.startingValue) /\ v.startingValue # Num(0)
    /\ v.result # <<>> => v.result[1].metrics

---------------------------------------------------------------------------
(* normalizeWeights on its own (SpecNormalize) *)

\* the values a weights list can hold: numbers typed into the form, and what
\* JSON.parse of a chosen file can put there (1e999 reads as Infinity; strings
\* and null are kept as they are)
WeightValues ==
    { JsNum(Num(0)), JsNum(Num(1)), JsNum(Rat(1, 2)), JsNum(Num(-1)),
      JsNum(NaN), JsNum(PosInf), JsStr(NaN), JsStr(Num(2)), JsNull, JsUndef }

WeightLists == UNION { [1..k -> WeightValues] : k \in 0..MaxLen }

InitNormalize ==
    /\ InitApp /\ storage = <<>> /\ edits = 0 /\ InitApi /\ InitEngine
    /\ InitAnalyzer
    /\ nwWeights \in WeightLists
    /\ nwN \in 0..MaxN
    /\ nwOut = <<>>

\* one call normalizeWeights(nwWeights, nwN)
CallNormalizeWeights ==
    /\ nwOut = <<>>
    /\ nwOut' = <<normalizeWeights(nwWeights, nwN)>>
    /\ UNCHANGED <<savedVars, pageVars, backtestVars, error, wire, download,
                   toolVars, nwWeights, nwN, edits, apiVars, engineVars,
                   analyzerVars>>

NextNormalize == CallNormalizeWeights

SpecNormalize == InitNormalize /\ [][NextNormalize]_vars

\* every entry of the list is 0 once clamped
AllZero(weights, n) ==
    \A i \in 1..Min(Len(weights), n) : ClampWeight(weights[i]) = Num(0)

\* C1: for every n >= 1 and every input list, normalizeWeights returns exactly
\* n entries, each a number >= 0, that sum to 1; when every entry is zero it
\* returns n entries of 1/n.
C1_NormalizeWeightsValid ==
    (nwOut # <<>> /\ nwN >= 1) =>
        /\ ValidWeights(nwOut[1], nwN)
        /\ AllZero(nwWeights, nwN) => nwOut[1] = Fill(nwN, Rat(1, nwN))

---------------------------------------------------------------------------
(* Portfolio Optimizer and Efficient Frontier, lines 270-320 *)

\* longest ticker text typed over the alphabet {a, ","}
MaxTickerText == 2

\* the characters /[\s,]+/ matches
Separators == Whitespace \cup {","}

\* the number of leading characters of s that are not in set C
RECURSIVE PrefixLenNot(_, _)
PrefixLenNot(s, C) == IF s = <<>> \/ s[1] \in C THEN 0 ELSE 1 + PrefixLenNot(Tail(s), C)

\* s.split(/[\s,]+/): the pieces between the runs of separators; a run at
\* the start or at the end leaves an empty piece, and '' splits into ['']
RECURSIVE Split(_)
Split(s) ==
    LET k == PrefixLenNot(s, Separators)
        rest == Drop(s, k)
    IN  IF k = Len(s) THEN <<s>>
        ELSE <<Take(s, k)>> \o Split(Drop(rest, PrefixLen(rest, Separators)))

\* a variant of ParseTickers without .filter(Boolean)
ParseTickers_noFilter(s) ==
    LET pieces == Split(s)
    IN  [i \in 1..Len(pieces) |-> ToUpperCase(Trim(pieces[i]))]

\* s.split(/[\s,]+/).filter(Boolean).map((t) => t.trim().toUpperCase())
ParseTickers(s) ==
    LET pieces == SelectSeq(Split(s), LAMBDA t : t # <<>>)
    IN  [i \in 1..Len(pieces) |-> ToUpperCase(Trim(pieces[i]))]

\* what can be typed into a 'Tickers' text field
TickerTexts ==
    StringsUpTo({"a", ","}, MaxTickerText)
      \cup {ThreeTickersText, <<"a", " ", "b">>, <<"a", ",", "a">>, <<" ">>,
            <<" ", "a", ",", " ">>}

\* the bodies a tool's response can carry
ToolResponses ==
    { JsonResp(OkData), JsonResp(ErrData("No data for ticker")), NullResp, FailedResp }

\* the body of the optimizer's and the frontier's request
TickersPayload(tickers) ==
    [tickers |-> tickers, start_date |-> startDate, end_date |-> endDate]

\* error after the response resp: the try/catch of a tool's handler
ErrorAfter(resp) ==
    CASE resp.kind = "failed" -> <<MsgFetchFailed>>
      [] resp.kind = "unparsable" -> <<MsgBadJson>>
      [] resp.kind = "null" -> <<MsgNullData>>
      [] OTHER -> IF Truthy(resp.data.error) THEN resp.data.error ELSE error

\* whether the handler stores the response's body as the tool's result
StoresResult(resp) == resp.kind = "json" /\ ~Truthy(resp.data.error)

SetOptimizerTickers(text) ==
    /\ phase = "ready"
    /\ optimizerTickers' = text
    /\ Quiet
    /\ UNCHANGED <<savedVars, storage, backtestVars, error, optimizerResult,
                   optimizerLoading, optimizerPending, frontierVars, rebalVars,
                   tvmVars, auxVars>>

\* the click on Optimize (disabled while optimizerLoading), up to the fetch
runOptimizer ==
    /\ phase = "ready"
    /\ ~Disabled(optimizerLoading)
    /\ optimizerResult' = <<>>
    /\ LET tickers == ParseTickers(optimizerTickers)
       IN  IF Len(tickers) < 2
           THEN /\ error' = <<ErrTwoTickers>>
                /\ optimizerLoading' = FALSE
                /\ wire' = <<>>
                /\ UNCHANGED optimizerPending
           ELSE /\ error' = <<>>
                /\ optimizerLoading' = TRUE
                /\ optimizerPending' = TRUE
                /\ wire' = <<[url |-> "/api/optimizer", body |-> TickersPayload(tickers)]>>
    /\ download' = <<>>
    /\ UNCHANGED <<savedVars, pageVars, backtestVars, optimizerTickers,
                   frontierVars, rebalVars, tvmVars, auxVars>>

\* the rest of runOptimizer, once the fetch has settled with resp
OptimizerResponse(resp) ==
    /\ phase = "ready"
    /\ optimizerPending
    /\ optimizerPending' = FALSE
    /\ optimizerLoading' = FALSE
    /\ error' = ErrorAfter(resp)
    /\ optimizerResult' = IF StoresResult(resp) THEN <<resp.data>> ELSE optimizerResult
    /\ Quiet
    /\ UNCHANGED <<savedVars, storage, backtestVars, optimizerTickers,
                   frontierVars, rebalVars, tvmVars, auxVars>>

SetFrontierTickers(text) ==
    /\ phase = "ready"
    /\ frontierTickers' = text
    /\ Quiet
    /\ UNCHANGED <<savedVars, storage, backtestVars, error, frontierResult,
                   frontierLoading, frontierPending, optimizerVars, rebalVars,
                   tvmVars, auxVars>>

\* the click on Compute frontier (disabled while frontierLoading), up to the
\* fetch
runEfficientFrontier ==
    /\ phase = "ready"
    /\ ~Disabled(frontierLoading)
    /\ frontierResult' = <<>>
    /\ LET tickers == ParseTickers(frontierTickers)
       IN  IF Len(tickers) < 2
           THEN /\ error' = <<ErrTwoTickers>>
                /\ frontierLoading' = FALSE
                /\ wire' = <<>>
                /\ UNCHANGED frontierPending
           ELSE /\ error' = <<>>
                /\ frontierLoading' = TRUE
                /\ frontierPending' = TRUE
                /\ wire' = <<[url |-> "/api/efficient_frontier",
                              body |-> TickersPayload(tickers)]>>
    /\ download' = <<>>
    /\ UNCHANGED <<savedVars, pageVars, backtestVars, frontierTickers,
                   optimizerVars, rebalVars, tvmVars, auxVars>>

\* the rest of runEfficientFrontier, once the fetch has settled with resp
FrontierResponse(resp) ==
    /\ phase = "ready"
    /\ frontierPending
    /\ frontierPending' = FALSE
    /\ frontierLoading' = FALSE
    /\ error' = ErrorAfter(resp)
    /\ frontierResult' = IF StoresResult(resp) THEN <<resp.data>> ELSE frontierResult
    /\ Quiet
    /\ UNCHANGED <<savedVars, storage, backtestVars, frontierTickers,
                   optimizerVars, rebalVars, tvmVars, auxVars>>

\* the first render in a browser that holds no saved item
InitPage == InitApp /\ storage = <<>> /\ InitAux

NextOptimizer ==
    \/ MountEffects
    \/ MountRerender
    \/ \E t \in TickerTexts : SetOptimizerTickers(t)
    \/ runOptimizer
    \/ \E r \in ToolResponses : OptimizerResponse(r)
    \/ \E t \in TickerTexts : SetFrontierTickers(t)
    \/ runEfficientFrontier
    \/ \E r \in ToolResponses : FrontierResponse(r)

SpecOptimizer == InitPage /\ [][NextOptimizer]_vars


\* the number of tickers in a text: the maximal runs of characters that are
\* no separators, counted without splitting
CountTickers(s) ==
    Cardinality({i \in 1..Len(s) :
                   s[i] \notin Separators /\ (i = 1 \/ s[i - 1] \in Separators)})

\* whether this step sends a request to url
Sends(url) == wire' # <<>> /\ wire'[1].url = url

\* C6: runOptimizer and runEfficientFrontier send a request exactly when the
\* text holds at least 2 tickers, and the request carries them all; with fewer
\* than 2 tickers no request is sent, error is 'Enter at least 2 tickers', the
\* tool's loading flag is false and its result is null after the call.
C6_TwoTickersOrNothing ==
    [][/\ runOptimizer =>
            IF CountTickers(optimizerTickers) >= 2
            THEN /\ Sends("/api/optimizer")
                 /\ Len(wire'[1].body.tickers) = CountTickers(optimizerTickers)
            ELSE /\ wire' = <<>> /\ ~optimizerPending'
                 /\ error' = <<ErrTwoTickers>>
                 /\ ~optimizerLoading' /\ optimizerResult' = <<>>
       /\ runEfficientFrontier =>
            IF CountTickers(frontierTickers) >= 2
            THEN /\ Sends("/api/efficient_frontier")
                 /\ Len(wire'[1].body.tickers) = CountTickers(frontierTickers)
            ELSE /\ wire' = <<>> /\ ~frontierPending'
                 /\ error' = <<ErrTwoTickers>>
                 /\ ~frontierLoading' /\ frontierResult' = <<>>
       /\ (Sends("/api/optimizer") \/ Sends("/api/efficient_frontier")) =>
            /\ Len(wire'[1].body.tickers) >= 2
            /\ \A i \in 1..Len(wire'[1].body.tickers) : wire'[1].body.tickers[i] # <<>>
      ]_vars

\* a refused click on a tool that held a result, on text with one ticker and a
\* trailing separator
C6_Witness ==
    /\ error = <<ErrTwoTickers>> /\ wire = <<>>
    /\ optimizerTickers = <<"a", ",">> /\ optimizerResult = <<>>
    /\ ~optimizerLoading
    /\ frontierResult # <<>>

---------------------------------------------------------------------------
(* Rebalancing Sensitivity, lines 322-353 *)

\* what can be typed into the tool's 'Tickers' and 'Weights %' fields
RebalTickerTexts == {TwoTickersText, <<>>, <<"a">>, <<"a", ",">>}
RebalWeightTexts ==
    { SixtyFortyText, <<>>, <<"1">>, <<".", "6", ",", " ", ".", "4">>,
      <<"-", "1", ",", " ", "2">>, <<"x", ",", "1">> }

\* s.split(/[\s,]+/).map((s) => parseFloat(s.trim())).filter((n) => !isNaN(n))
ParseWeights(s) ==
    LET pieces == Split(s)
        nums == [i \in 1..Len(pieces) |-> parseFloat(Trim(pieces[i]))]
    IN  SelectSeq(nums, LAMBDA n : ~IsNaN(n))

\* the body of the request; weights: undefined leaves the key out (<<>>)
RebalPayload(tickers, weights) ==
    [tickers |-> tickers,
     weights |-> IF Len(weights) = Len(tickers)
                 THEN <<[i \in 1..Len(weights) |-> JsonNumber(weights[i])]>>
                 ELSE <<>>,
     start_date |-> startDate,
     end_date |-> endDate,
     starting_value |-> JsonNumber(startingValue)]

SetRebalTickers(text) ==
    /\ phase = "ready"
    /\ rebalTickers' = text
    /\ Quiet
    /\ UNCHANGED <<savedVars, storage, backtestVars, error, rebalWeights, rebalResult,
                   rebalLoading, rebalPending, optimizerVars, frontierVars,
                   tvmVars, auxVars>>

SetRebalWeights(text) ==
    /\ phase = "ready"
    /\ rebalWeights' = text
    /\ Quiet
    /\ UNCHANGED <<savedVars, storage, backtestVars, error, rebalTickers, rebalResult,
                   rebalLoading, rebalPending, optimizerVars, frontierVars,
                   tvmVars, auxVars>>

\* the click on Run sensitivity (disabled while rebalLoading), up to the fetch
runRebalancingSensitivity ==
    /\ phase = "ready"
    /\ ~Disabled(rebalLoading)
    /\ rebalResult' = <<>>
    /\ LET tickers == ParseTickers(rebalTickers)
           weights == ParseWeights(rebalWeights)
       IN  IF Len(tickers) = 0
           THEN /\ error' = <<ErrOneTicker>>
                /\ rebalLoading' = FALSE
                /\ wire' = <<>>
                /\ UNCHANGED rebalPending
           ELSE /\ error' = <<>>
                /\ rebalLoading' = TRUE
                /\ rebalPending' = TRUE
                /\ wire' = <<[url |-> "/api/rebalancing_sensitivity",
                              body |-> RebalPayload(tickers, weights)]>>
    /\ download' = <<>>
    /\ UNCHANGED <<savedVars, pageVars, backtestVars, rebalTickers, rebalWeights,
                   optimizerVars, frontierVars, tvmVars, auxVars>>

\* the rest of runRebalancingSensitivity, once the fetch has settled with resp
RebalResponse(resp) ==
    /\ phase = "ready"
    /\ rebalPending
    /\ rebalPending' = FALSE
    /\ rebalLoading' = FALSE
    /\ error' = ErrorAfter(resp)
    /\ rebalResult' = IF StoresResult(resp) THEN <<resp.data>> ELSE rebalResult
    /\ Quiet
    /\ UNCHANGED <<savedVars, storage, backtestVars, rebalTickers, rebalWeights,
                   optimizerVars, frontierVars, tvmVars, auxVars>>

NextRebal ==
    \/ MountEffects
    \/ MountRerender
    \/ \E t \in RebalTickerTexts : SetRebalTickers(t)
    \/ \E t \in RebalWeightTexts : SetRebalWeights(t)
    \/ \E t \in StartingValueInputs : SetStartingValue(t)
    \/ runRebalancingSensitivity
    \/ \E r \in ToolResponses : RebalResponse(r)

SpecRebal == InitPage /\ [][NextRebal]_vars

\* C3: every weights list that runRebalancingSensitivity sends is a valid
\* weight vector: one weight per ticker, every weight a number >= 0, and the
\* weights sum to 1.
C3_RebalWeightsNormalized ==
    (wire # <<>> /\ wire[1].url = "/api/rebalancing_sensitivity"
                 /\ wire[1].body.weights # <<>>) =>
        LET sent == wire[1].body.weights[1]
        IN  /\ \A i \in 1..Len(sent) : sent[i][1] = "num"
            /\ ValidWeights([i \in 1..Len(sent) |-> ToNumber(sent[i])],
                            Len(wire[1].body.tickers))

---------------------------------------------------------------------------
(* TVM calculator, lines 355-375 and 776-799 *)

\* longest text typed into the PMT field
MaxTyped == 2
\* most /api/tvm requests awaiting their response at once
MaxTvmInFlight == 2

\* e.target.value of an <input type="number"> after the user typed text:
\* the text when it is a valid floating-point number (whose value is then
\* finite), '' otherwise
NumberInputValue(typed) == IF IsValidFloat(typed) THEN typed ELSE <<>>

\* what can be typed into the PV, FV, Rate and N fields, and into PMT
TvmTyped == {<<>>, <<"5">>, <<"x">>}
PmtTyped == StringsUpTo({"5", ".", "-", "x"}, MaxTyped)

\* a variant of TvmField with || 0 in place of the test for ''
TvmField_orZero(text) == JsonNumber(OrZero(parseFloat(text)))

\* tvmPv === '' ? null : parseFloat(tvmPv), as JSON.stringify writes it
TvmField(text) == IF text = <<>> THEN JsNull ELSE JsonNumber(parseFloat(text))

\* a variant of TvmPmtValue without || 0
TvmPmtValue_noDefault(text) == JsonNumber(parseFloat(text))

\* parseFloat(tvmPmt) || 0, as JSON.stringify writes it
TvmPmtValue(text) == JsonNumber(OrZero(parseFloat(text)))

\* the body of the request
TvmPayload ==
    [pv |-> TvmField(tvmPv), fv |-> TvmField(tvmFv), rate |-> TvmField(tvmRate),
     nper |-> TvmField(tvmNper), pmt |-> TvmPmtValue(tvmPmt), rate_decimal |-> TRUE]

\* how many of pv, fv, rate, nper a request leaves unset, up to "two or more"
UnsetClasses == 0..2
UnsetClass(body) ==
    Min(2, Cardinality({f \in {"pv", "fv", "rate", "nper"} : body[f] = JsNull}))

\* solve_tvm behind /api/tvm, for a request of the given class: the bodies
\* the engine can answer with
SolveTvm(class) ==
    CASE class = 0 -> {ErrData("UnderdeterminedError")}
      [] class = 1 -> {OkData, ErrData("NoSolutionError"), ErrData("NonConvergenceError")}
      [] OTHER -> {ErrData("OverdeterminedError")}

\* what the fetch of a request of the given class can come back with: the
\* engine's answer, or no (readable) response
TvmResponses(class) == {JsonResp(d) : d \in SolveTvm(class)} \cup {FailedResp, UnparsableResp}

InFlight == tvmNet[0] + tvmNet[1] + tvmNet[2]

SetTvmPv(typed) ==
    /\ phase = "ready"
    /\ tvmPv' = NumberInputValue(typed)
    /\ Quiet
    /\ UNCHANGED <<savedVars, storage, backtestVars, error, tvmFv, tvmRate, tvmNper,
                   tvmPmt, tvmResult, tvmNet, tvmLast, optimizerVars, frontierVars, rebalVars,
                   auxVars>>

SetTvmFv(typed) ==
    /\ phase = "ready"
    /\ tvmFv' = NumberInputValue(typed)
    /\ Quiet
    /\ UNCHANGED <<savedVars, storage, backtestVars, error, tvmPv, tvmRate, tvmNper,
                   tvmPmt, tvmResult, tvmNet, tvmLast, optimizerVars, frontierVars, rebalVars,
                   auxVars>>

SetTvmRate(typed) ==
    /\ phase = "ready"
    /\ tvmRate' = NumberInputValue(typed)
    /\ Quiet
    /\ UNCHANGED <<savedVars, storage, backtestVars, error, tvmPv, tvmFv, tvmNper,
                   tvmPmt, tvmResult, tvmNet, tvmLast, optimizerVars, frontierVars, rebalVars,
                   auxVars>>

SetTvmNper(typed) ==
    /\ phase = "ready"
    /\ tvmNper' = NumberInputValue(typed)
    /\ Quiet
    /\ UNCHANGED <<savedVars, storage, backtestVars, error, tvmPv, tvmFv, tvmRate,
                   tvmPmt, tvmResult, tvmNet, tvmLast, optimizerVars, frontierVars, rebalVars,
                   auxVars>>

SetTvmPmt(typed) ==
    /\ phase = "ready"
    /\ tvmPmt' = NumberInputValue(typed)
    /\ Quiet
    /\ UNCHANGED <<savedVars, storage, backtestVars, error, tvmPv, tvmFv, tvmRate,
                   tvmNper, tvmResult, tvmNet, tvmLast, optimizerVars, frontierVars, rebalVars,
                   auxVars>>

\* the click on Solve (never disabled): runTvm up to the fetch
runTvm ==
    /\ phase = "ready"
    /\ InFlight < MaxTvmInFlight
    /\ tvmResult' = <<>>
    /\ error' = <<>>
    /\ wire' = <<[url |-> "/api/tvm", body |-> TvmPayload]>>
    /\ tvmNet' = [tvmNet EXCEPT ![UnsetClass(TvmPayload)] = @ + 1]
    /\ tvmLast' = <<UnsetClass(TvmPayload)>>
    /\ download' = <<>>
    /\ UNCHANGED <<savedVars, pageVars, backtestVars, tvmFields,
                   optimizerVars, frontierVars, rebalVars, auxVars>>

\* the .then / .catch callbacks of one request of the given class, whose
\* fetch has settled with resp
TvmResponse(class, resp) ==
    /\ phase = "ready"
    /\ tvmNet[class] > 0
    /\ tvmNet' = [tvmNet EXCEPT ![class] = @ - 1]
    /\ error' = ErrorAfter(resp)
    /\ tvmResult' = IF StoresResult(resp) THEN <<resp.data>> ELSE tvmResult
    /\ Quiet
    /\ UNCHANGED <<savedVars, storage, backtestVars, tvmFields, tvmLast,
                   optimizerVars, frontierVars, rebalVars, auxVars>>

NextTvm ==
    \/ MountEffects
    \/ MountRerender
    \/ \E t \in TvmTyped : SetTvmPv(t)
    \/ \E t \in TvmTyped : SetTvmFv(t)
    \/ \E t \in TvmTyped : SetTvmRate(t)
    \/ \E t \in TvmTyped : SetTvmNper(t)
    \/ \E t \in PmtTyped : SetTvmPmt(t)
    \/ runTvm
    \/ \E c \in UnsetClasses : \E r \in TvmResponses(c) : TvmResponse(c, r)

SpecTvm == InitPage /\ [][NextTvm]_vars


\* how many of the PV, FV, Rate and N fields are blank
BlankFields == Cardinality({k \in 1..4 : tvmFields[k] = <<>>})

\* C4: a TVM solve succeeds only when exactly one of pv, fv, rate, nper is
\* unset.  The request runTvm sends leaves unset exactly the blank fields; the
\* response to a request with none unset carries UnderdeterminedError, the
\* response to one with two or more unset carries OverdeterminedError, and in
\* both cases the handler sets error and stores no tvmResult; only the
\* response to a request with exactly one unset field stores a tvmResult.
C4_TvmOneUnknown ==
    [][/\ runTvm => UnsetClass(wire'[1].body) = Min(2, BlankFields)
       /\ \A c \in UnsetClasses : \A r \in TvmResponses(c) :
            TvmResponse(c, r) =>
              /\ tvmResult' # tvmResult => c = 1
              /\ (c = 0 /\ r.kind = "json") => error' = <<"UnderdeterminedError">>
              /\ (c = 2 /\ r.kind = "json") => error' = <<"OverdeterminedError">>
              /\ c # 1 => (error' # <<>> /\ tvmResult' = tvmResult)
      ]_vars

\* a solve with all four fields filled in has been refused
C4_Witness ==
    /\ BlankFields = 0 /\ InFlight = 0
    /\ error = <<"UnderdeterminedError">> /\ tvmResult = <<>>

\* C5: in every TVM request pmt is a number: the PMT field's number, and 0
\* when the field's value is blank (as it is for text that is no number); each
\* of pv, fv, rate, nper is null exactly when its field is blank.
C5_TvmPmtNumeric ==
    (wire # <<>> /\ wire[1].url = "/api/tvm") =>
        LET b == wire[1].body
        IN  /\ b.pmt[1] = "num" /\ IsFinite(ToNumber(b.pmt))
            /\ b.pmt = JsNum(NumberOfString(tvmPmt))
            /\ tvmPmt = <<>> => b.pmt = JsNum(Num(0))
            /\ (b.pv = JsNull) <=> (tvmPv = <<>>)
            /\ (b.fv = JsNull) <=> (tvmFv = <<>>)
            /\ (b.rate = JsNull) <=> (tvmRate = <<>>)
            /\ (b.nper = JsNull) <=> (tvmNper = <<>>)
            /\ \A f \in {"pv", "fv", "rate", "nper"} : b[f] # JsNull => b[f][1] = "num"

\* a request sent with the PMT field blank, PV blank and FV filled in
C5_Witness ==
    /\ wire # <<>> /\ wire[1].url = "/api/tvm"
    /\ tvmPmt = <<>> /\ wire[1].body.pmt = JsNum(Num(0))
    /\ tvmPv = <<>> /\ wire[1].body.pv = JsNull
    /\ tvmFv # <<>> /\ wire[1].body.fv # JsNull

---------------------------------------------------------------------------
(* Portfolios panel, lines 144-207 and 528-572 *)

\* most edits of the portfolios list in one run
MaxEdits == 3

\* s without its j-th entry: s.filter((_, k) => k !== j)
RemoveAt(s, j) ==
    IF j > Len(s) THEN s
    ELSE [k \in 1..(Len(s) - 1) |-> IF k < j THEN s[k] ELSE s[k + 1]]

\* a list of numbers as a weights list
AsWeights(w) == [k \in 1..Len(w) |-> JsNum(w[k])]

\* what can be typed into a ticker's symbol field, a portfolio's name field
\* and a weight's '%' field (type=number)
SymbolTexts == {<<>>, <<"a">>, <<" ", "b", " ">>}
NameTexts == {"", "Growth", "S&P 500"}
WeightTyped == {<<>>, <<"5", "0">>, <<"-", "5">>, <<"x">>}

\* (Number(e.target.value) || 0) / 100
WeightInputValue(typed) ==
    JsDiv(OrZero(NumberOfString(NumberInputValue(typed))), Num(100))

\* what every edit of the portfolios list does around its setPortfolios call
EditPortfolios(next) ==
    /\ phase = "ready"
    /\ edits < MaxEdits
    /\ edits' = edits + 1
    /\ SetView([View EXCEPT !.portfolios = next])
    /\ PersistEffect /\ Quiet
    /\ UNCHANGED <<backtestVars, error, toolVars, nwVars, apiVars, engineVars,
                   analyzerVars>>

addPortfolio ==
    EditPortfolios(Append(portfolios,
        [name |-> "Portfolio " \o ToString(Len(portfolios) + 1),
         tickers |-> <<VTI>>, weights |-> <<JsNum(Num(1))>>]))

\* the × of portfolio i, rendered when there is more than one portfolio
removePortfolio(i) ==
    /\ Len(portfolios) > 1
    /\ EditPortfolios(RemoveAt(portfolios, i))

\* a variant of addTicker that adds the row and leaves the weights alone
addTicker_keepWeights(portIndex) ==
    EditPortfolios([portfolios EXCEPT ![portIndex].tickers = Append(@, <<>>)])

addTicker(portIndex) ==
    LET port == portfolios[portIndex]
        tickers == Append(port.tickers, <<>>)
        n == Len(tickers)
    IN  EditPortfolios([portfolios EXCEPT ![portIndex] =
            [port EXCEPT !.tickers = tickers,
                         !.weights = AsWeights(Fill(n, JsDiv(Num(1), Num(n))))]])

\* the × of row tickIndex, rendered when the portfolio has more than one row
removeTicker(portIndex, tickIndex) ==
    LET port == portfolios[portIndex]
        tickers == RemoveAt(port.tickers, tickIndex)
        weights == RemoveAt(port.weights, tickIndex)
    IN  /\ Len(port.tickers) > 1
        /\ EditPortfolios([portfolios EXCEPT ![portIndex] =
               [port EXCEPT !.tickers = tickers,
                            !.weights = AsWeights(normalizeWeights(weights, Len(tickers)))]])

\* a variant of setTicker that also spreads the weights evenly, as addTicker
\* does
setTicker_evenWeights(portIndex, tickIndex, value) ==
    LET port == portfolios[portIndex]
        n == Len(port.tickers)
    IN  EditPortfolios([portfolios EXCEPT ![portIndex] =
            [port EXCEPT !.tickers[tickIndex] = ToUpperCase(Trim(value)),
                         !.weights = AsWeights(Fill(n, JsDiv(Num(1), Num(n))))]])

setTicker(portIndex, tickIndex, value) ==
    EditPortfolios([portfolios EXCEPT ![portIndex].tickers[tickIndex] =
                       ToUpperCase(Trim(value))])

\* setWeight with the number the '%' field hands it; the field is rendered
\* when the portfolio has more than one row
setWeight(portIndex, tickIndex, value) ==
    LET port == portfolios[portIndex]
        padded == [k \in 1..(IF Len(port.weights) < tickIndex THEN tickIndex
                             ELSE Len(port.weights)) |->
                     IF k <= Len(port.weights) THEN port.weights[k] ELSE JsNum(Num(0))]
        w == IF IsNaN(value) THEN Num(0) ELSE value
    IN  /\ Len(port.tickers) > 1
        /\ EditPortfolios([portfolios EXCEPT ![portIndex].weights =
                              [padded EXCEPT ![tickIndex] = JsNum(w)]])

\* updatePortfolio(i, 'name', value)
updatePortfolio(i, value) ==
    EditPortfolios([portfolios EXCEPT ![i].name = value])

\* the files chosen on this panel: portfolios only
PortfolioFiles ==
    { ObjectSnap([NoFields EXCEPT !.portfolios = <<<<UnboundedPortfolio>>>>]),
      ObjectSnap([NoFields EXCEPT !.portfolios = <<<<defaultPortfolio, BlankRowPortfolio>>>>]) }

Rows(i) == 1..Len(portfolios[i].tickers)

NextPortfolio ==
    \/ MountEffects
    \/ MountRerender
    \/ addPortfolio
    \/ \E i \in 1..Len(portfolios) : removePortfolio(i)
    \/ \E i \in 1..Len(portfolios) : addTicker(i)
    \/ \E i \in 1..Len(portfolios) : \E j \in Rows(i) : removeTicker(i, j)
    \/ \E i \in 1..Len(portfolios) : \E j \in Rows(i) : \E t \in SymbolTexts :
          setTicker(i, j, t)
    \/ \E i \in 1..Len(portfolios) : \E j \in Rows(i) : \E t \in WeightTyped :
          setWeight(i, j, WeightInputValue(t))
    \/ \E i \in 1..Len(portfolios) : \E t \in NameTexts : updatePortfolio(i, t)
    \/ \E f \in PortfolioFiles : handleLoadFromFile(f)
    \/ runBacktest
    \/ BacktestResponse(JsonResp(OkData))

SpecPortfolio == InitPage /\ [][NextPortfolio]_vars

\* C2: every portfolio in the body of a /api/backtest request has at least one
\* ticker and as many weights as tickers, every weight a number >= 0, and the
\* weights sum to 1.
C2_PayloadWeightsValid ==
    (wire # <<>> /\ wire[1].url = "/api/backtest") =>
        \A i \in 1..Len(wire[1].body.portfolios) :
            LET p == wire[1].body.portfolios[i]
            IN  /\ Len(p.tickers) >= 1
                /\ Len(p.weights) = Len(p.tickers)
                /\ \A k \in 1..Len(p.weights) : p.weights[k][1] = "num"
                /\ ValidWeights([k \in 1..Len(p.weights) |-> ToNumber(p.weights[k])],
                                Len(p.tickers))

---------------------------------------------------------------------------
(* C11: saving and the initial load (Spec) *)

\* C11: when localStorage holds a saved snapshot at mount, nothing is written
\* to localStorage before the snapshot's values have been applied to the
\* state: the step that runs the mount effects leaves the item as it is.
C11_NoSaveBeforeRestore ==
    [][(MountEffects /\ loadFromStorage(storage) # <<>>) => storage' = storage]_vars

---------------------------------------------------------------------------
(* getApiBase, lines 6-11 (SpecApiBase) *)

\* a variant of getApiBase that does not test VITE_API_URL for ''
getApiBase_anyDefined(env, host) ==
    IF env # <<>> THEN env[1]
    ELSE IF host # <<>> /\ host[1] # "localhost" /\ host[1] # "127.0.0.1" THEN ""
    ELSE "http://localhost:8000"

\* getApiBase() for VITE_API_URL env and the page's hostname host
getApiBase(env, host) ==
    IF env # <<>> /\ env[1] # "" THEN env[1]
    ELSE IF host # <<>> /\ host[1] # "localhost" /\ host[1] # "127.0.0.1" THEN ""
    ELSE "http://localhost:8000"

\* the values VITE_API_URL is built with, and the hostnames a page is served
\* under ('' for a file: page)
ApiUrls ==
    { "", "/", "https://api.example.com", "http://localhost:8000",
      "http://127.0.0.1:8000", "https://testfolio.vercel.app" }
Hostnames ==
    { "localhost", "127.0.0.1", "testfolio.vercel.app", "example.com", "[::1]",
      "0.0.0.0", "192.168.1.10", "" }

InitApiBase ==
    /\ InitApp /\ storage = <<>> /\ edits = 0 /\ InitEngine /\ InitAnalyzer
    /\ nwWeights = <<>> /\ nwN = 0 /\ nwOut = <<>>
    /\ viteApiUrl \in {<<>>} \cup {<<u>> : u \in ApiUrls}
    /\ hostname \in {<<>>} \cup {<<h>> : h \in Hostnames}
    /\ API = <<>>

\* const API = getApiBase(), when the module is loaded
LoadModule ==
    /\ API = <<>>
    /\ API' = <<getApiBase(viteApiUrl, hostname)>>
    /\ UNCHANGED <<savedVars, pageVars, backtestVars, error, wire, download,
                   toolVars, nwVars, edits, viteApiUrl, hostname, engineVars,
                   analyzerVars>>

NextApiBase == LoadModule

SpecApiBase == InitApiBase /\ [][NextApiBase]_vars

\* C12: getApiBase returns VITE_API_URL when it is defined and non-empty;
\* otherwise '' when the page's hostname is neither 'localhost' nor
\* '127.0.0.1'; otherwise 'http://localhost:8000'.
C12_ApiBase ==
    API # <<>> =>
        LET envSet == viteApiUrl \notin {<<>>, <<"">>}
            local == hostname \in {<<>>, <<"localhost">>, <<"127.0.0.1">>}
        IN  /\ envSet => API[1] = viteApiUrl[1]
            /\ (~envSet /\ ~local) => API[1] = ""
            /\ (~envSet /\ local) => API[1] = "http://localhost:8000"

\* a deployed page built with an empty VITE_API_URL uses same-origin /api
C12_Witness ==
    /\ API = <<"">> /\ viteApiUrl = <<"">> /\ hostname = <<"testfolio.vercel.app">>

---------------------------------------------------------------------------
(* The engine's Rebalancing Simulator (spec.md 4.3), for one portfolio on   *)
(* an aligned calendar.  The engine's code is not part of the front end;    *)
(* it is modelled from its specification, with exact arithmetic.            *)

\* most dates of an aligned calendar
MaxDates == 3

\* x * y for finite numbers
Mul(x, y) == Rat(x[1] * y[1], x[2] * y[2])
\* x - y for finite numbers
Sub(x, y) == Rat(x[1] * y[2] - y[1] * x[2], x[2] * y[2])

\* trading dates, by the ISO week, month, quarter and year each falls in:
\* 2023-12-28, 2023-12-29, 2024-01-02, 2024-01-08, 2024-02-01, 2024-04-01
SimDates ==
    << [week |-> 202352, month |-> 202312, quarter |-> 20234, year |-> 2023],
       [week |-> 202352, month |-> 202312, quarter |-> 20234, year |-> 2023],
       [week |-> 202401, month |-> 202401, quarter |-> 20241, year |-> 2024],
       [week |-> 202402, month |-> 202401, quarter |-> 20241, year |-> 2024],
       [week |-> 202405, month |-> 202402, quarter |-> 20241, year |-> 2024],
       [week |-> 202414, month |-> 202404, quarter |-> 20242, year |-> 2024] >>

\* the target weights of the portfolios simulated; the last is not normalized
SimPortfolios ==
    { <<Num(1)>>, <<Rat(1, 2), Rat(1, 2)>>, <<Rat(1, 4), Rat(3, 4)>>,
      <<Rat(1, 2), Rat(1, 4)>> }
\* the quotes of a ticker (0 stands for corrupt data)
PriceValues == {Num(0), Num(1), Num(2)}
PriceRows(n) == [1..n -> PriceValues]
SimStartingValues == {Num(100)}

\* whether date d is the first trading date of its period, for a calendar in
\* which the date before d is prev
IsBoundary(freq, prev, d) ==
    CASE freq = "daily" -> TRUE
      [] freq = "weekly" -> SimDates[d].week # SimDates[prev].week
      [] freq = "monthly" -> SimDates[d].month # SimDates[prev].month
      [] freq = "quarterly" -> SimDates[d].quarter # SimDates[prev].quarter
      [] OTHER -> SimDates[d].year # SimDates[prev].year

\* a variant of FirstAmounts that leaves out the starting value
FirstAmounts_unscaled(start, w) == w

\* the amounts on the first date: starting_value * target_weight
FirstAmounts(start, w) == [i \in 1..Len(w) |-> Mul(start, w[i])]

\* a variant of Drift that scales by the return price/previous - 1
Drift_byReturn(am, pOld, pNew) ==
    [i \in 1..Len(am) |-> Mul(am[i], Sub(JsDiv(pNew[i], pOld[i]), Num(1)))]

\* the drift update: each amount scaled by its ticker's one-period price move
Drift(am, pOld, pNew) == [i \in 1..Len(am) |-> Mul(am[i], JsDiv(pNew[i], pOld[i]))]

\* the reset to total_value * target_weight
Rebalance(am, w) == [i \in 1..Len(am) |-> Mul(SumNums(am), w[i])]

\* a variant of StepAmounts that resets before the drift update
StepAmounts_resetFirst(freq, w, am, prev, d, pOld, pNew) ==
    IF IsBoundary(freq, prev, d) THEN Drift(Rebalance(am, w), pOld, pNew)
    ELSE Drift(am, pOld, pNew)

\* the amounts after date d: the drift update, then the reset on a boundary
StepAmounts(freq, w, am, prev, d, pOld, pNew) ==
    IF IsBoundary(freq, prev, d) THEN Rebalance(Drift(am, pOld, pNew), w)
    ELSE Drift(am, pOld, pNew)

ValidPrices(p) == \A i \in 1..Len(p) : JsLt(Num(0), p[i])

simRest == <<savedVars, pageVars, backtestVars, error, wire, download, toolVars,
             nwVars, edits, apiVars, solveVars, analyzerVars>>

\* the first date of the calendar, for a request (freq, w, start)
SimFirstDate(freq, w, start, d, prices) ==
    /\ simPhase = "idle"
    /\ simFreq' = freq /\ simWeights' = w /\ simStart' = start
    /\ simDate' = d /\ simPrice0' = prices /\ simPrice' = prices
    /\ IF ValidWeights(w, Len(w)) /\ ValidPrices(prices)
       THEN /\ simPhase' = "running"
            /\ amounts' = FirstAmounts(start, w)
            /\ curve' = <<SumNums(FirstAmounts(start, w))>>
       ELSE \* InvalidWeightsError, InvalidPriceError
            /\ simPhase' = "failed"
            /\ amounts' = <<>> /\ curve' = <<>>
    /\ UNCHANGED <<simRest, drawdown>>

\* the next date d of the calendar, with its quotes
SimNextDate(d, prices) ==
    /\ simPhase = "running"
    /\ d > simDate
    /\ Len(curve) < MaxDates
    /\ simDate' = d /\ simPrice' = prices
    /\ IF ValidPrices(prices)
       THEN LET next == StepAmounts(simFreq, simWeights, amounts, simDate, d,
                                    simPrice, prices)
            IN  /\ amounts' = next
                /\ curve' = Append(curve, SumNums(next))
                /\ UNCHANGED simPhase
       ELSE \* InvalidPriceError
            /\ simPhase' = "failed"
            /\ amounts' = <<>> /\ curve' = <<>>
    /\ UNCHANGED <<simFreq, simWeights, simStart, simPrice0>>
    /\ UNCHANGED <<simRest, drawdown>>

\* a variant of running_max that takes the peak of the whole curve
running_max_whole(value, t) ==
    CHOOSE x \in {value[k] : k \in 1..Len(value)} :
        \A k \in 1..Len(value) : JsLe(value[k], x)

\* the highest of value[1..t]
running_max(value, t) ==
    CHOOSE x \in {value[k] : k \in 1..t} : \A k \in 1..t : JsLe(value[k], x)

\* max over t of (1 - value[t] / running_max(value[1..t]))
max_drawdown(value) ==
    LET declines == {Sub(Num(1), JsDiv(value[t], running_max(value, t))) :
                        t \in 1..Len(value)}
    IN  CHOOSE x \in declines : \A y \in declines : JsLe(y, x)

\* the metrics of the run's equity curve
ComputeMetrics ==
    /\ simPhase = "running"
    /\ simPhase' = "done"
    /\ drawdown' = <<max_drawdown(curve)>>
    /\ UNCHANGED <<simFreq, simWeights, simStart, simDate, simPrice0, simPrice,
                   amounts, curve>>
    /\ UNCHANGED simRest

InitSimulator == InitApp /\ storage = <<>> /\ InitAux

NextSimulator ==
    \/ \E freq \in REBALANCE_OPTIONS : \E w \in SimPortfolios :
       \E start \in SimStartingValues : \E d \in 1..Len(SimDates) :
       \E prices \in PriceRows(Len(w)) : SimFirstDate(freq, w, start, d, prices)
    \/ \E d \in 1..Len(SimDates) : \E prices \in PriceRows(Len(simWeights)) :
          SimNextDate(d, prices)
    \/ ComputeMetrics

SpecSimulator == InitSimulator /\ [][NextSimulator]_vars


\* a date of the calendar has been processed without an error
SimDateDone == simPhase' = "running" /\ simDate' # simDate

\* C13: every date processed adds exactly one point to the end of the equity
\* curve and leaves the earlier points alone, and the first point is the
\* starting value
C13_OnePointPerDate ==
    [][SimDateDone =>
          /\ Len(curve') = Len(curve) + 1
          /\ SubSeq(curve', 1, Len(curve)) = curve
          /\ curve'[1] = simStart']_vars

\* C13: a two-ticker run over a calendar of MaxDates dates
C13_Witness ==
    simPhase = "running" /\ Len(simWeights) = 2 /\ Len(curve) = MaxDates

\* C14: on a boundary date each amount after the step is the total after the
\* drift update times the target weight, and the total is the one after the
\* drift update; on any other date the amounts are the drifted ones
C14_RebalanceAfterDrift ==
    [][(SimDateDone /\ simPhase = "running") =>
          LET drifted == Drift(amounts, simPrice, simPrice')
              total == SumNums(drifted)
          IN  IF IsBoundary(simFreq, simDate, simDate')
              THEN /\ \A i \in 1..Len(simWeights) :
                         amounts'[i] = Mul(total, simWeights[i])
                   /\ SumNums(amounts') = total
              ELSE amounts' = drifted]_vars

\* C14: a monthly run that has reset on 2024-01-02, after prices that moved
\* apart
C14_Witness ==
    /\ simPhase = "running" /\ simFreq = "monthly" /\ simDate = 3
    /\ Len(curve) = 2 /\ simWeights = <<Rat(1, 4), Rat(3, 4)>>
    /\ simPrice0 = <<Num(1), Num(1)>> /\ simPrice = <<Num(2), Num(1)>>

\* C15: the value of a one-ticker portfolio on every date is
\* starting_value * price / first price, whatever the frequency
C15_SingleAssetCurve ==
    (simPhase = "running" /\ Len(simWeights) = 1) =>
        curve[Len(curve)] = Mul(simStart, JsDiv(simPrice[1], simPrice0[1]))

\* C15: a one-ticker weekly run over MaxDates dates whose price has moved
C15_Witness ==
    /\ simPhase = "running" /\ Len(simWeights) = 1 /\ simFreq = "weekly"
    /\ Len(curve) = MaxDates /\ simPrice # simPrice0


NonDecreasing(value) == \A t \in 1..(Len(value) - 1) : JsLe(value[t], value[t + 1])

\* C16: the max drawdown of an equity curve of positive values is between 0
\* and 1, and it is 0 exactly when the curve never declines
C16_MaxDrawdownRange ==
    drawdown # <<>> =>
        /\ JsLe(Num(0), drawdown[1]) /\ JsLe(drawdown[1], Num(1))
        /\ (drawdown[1] = Num(0)) <=> NonDecreasing(curve)

\* C16: the metrics of a curve that rose and then fell below its start
C16_Witness ==
    /\ drawdown # <<>> /\ Len(curve) = MaxDates
    /\ JsLt(curve[1], curve[2]) /\ JsLt(curve[MaxDates], curve[1])
    /\ drawdown[1] = Sub(Num(1), JsDiv(curve[MaxDates], curve[2]))


---------------------------------------------------------------------------
(* The engine's two iterative solvers (spec.md 4.5, 4.8, 5): the            *)
(* Optimizer's solve and the TVM rate root-finder, each an explicit loop    *)
(* with an iteration budget.  The rate search is a bisection over the rate  *)
(* domain for a one-period relation pv * (1 + i) + fv = 0, in whole-number  *)
(* arithmetic; the Optimizer's objective is not modelled, an iteration of   *)
(* it may or may not converge.                                              *)

\* the fixed maximum iteration count of a solver
MaxIterations == 5

\* rates are counted in units of 1 / RateScale, which makes every midpoint
\* of MaxIterations halvings of the rate domain a whole number of units
RateScale == 100 * 2^MaxIterations
\* the rate domain -0.99 to 10.0
RateDomain == <<-99 * 2^MaxIterations, 1000 * 2^MaxIterations>>
\* the residual below which the rate search has converged
Epsilon == 5

PvInputs == {-200, -100, -50, 100}
FvInputs == {-50, 50, 100, 110, 150, 200, 1200}

\* RateScale times the residual pv * (1 + i) + fv of the relation at rate i,
\* for nper = 1 and pmt = 0
Residual(cf, i) == cf[1] * (RateScale + i) + cf[2] * RateScale

\* whether the residual changes sign over the bracket
SignChange(cf, b) ==
    \/ Residual(cf, b[1]) <= 0 /\ Residual(cf, b[2]) >= 0
    \/ Residual(cf, b[1]) >= 0 /\ Residual(cf, b[2]) <= 0

Midpoint(b) == (b[1] + b[2]) \div 2

\* the half of the bracket that keeps the sign change
Narrow(cf, b) ==
    IF SignChange(cf, <<b[1], Midpoint(b)>>) THEN <<b[1], Midpoint(b)>>
    ELSE <<Midpoint(b), b[2]>>

\* whether the rate search has converged at the midpoint of bracket b
RateConverged(cf, b) == Abs(Residual(cf, Midpoint(b))) < Epsilon * RateScale

\* a variant of BudgetLeft with no iteration budget
BudgetLeft_unbounded(n) == TRUE

\* whether the loop may run another iteration
BudgetLeft(n) == n < MaxIterations

solveRest == <<savedVars, pageVars, backtestVars, error, wire, download, toolVars,
               nwVars, edits, apiVars, simVars, drawdown, analyzerVars>>

\* a request to solve for the rate: no sign change over the domain fails at
\* once with NonConvergenceError
StartRateSearch(cf) ==
    /\ solvePhase = "idle"
    /\ solveKind' = "rate" /\ cashFlows' = cf /\ bracket' = RateDomain
    /\ iterations' = 0
    /\ solvePhase' = IF SignChange(cf, RateDomain) THEN "iterating" ELSE "failed"
    /\ UNCHANGED solveRest

\* a request to the Optimizer
StartOptimizer ==
    /\ solvePhase = "idle"
    /\ solveKind' = "optimizer" /\ cashFlows' = <<>> /\ bracket' = <<>>
    /\ iterations' = 0
    /\ solvePhase' = "iterating"
    /\ UNCHANGED solveRest

\* one iteration of the loop; converged is the outcome of an Optimizer step
SolveIterate(converged) ==
    /\ solvePhase = "iterating"
    /\ BudgetLeft(iterations)
    /\ iterations' = iterations + 1
    /\ bracket' = IF solveKind = "rate" THEN Narrow(cashFlows, bracket) ELSE bracket
    /\ solvePhase' =
          IF (IF solveKind = "rate" THEN RateConverged(cashFlows, bracket)
              ELSE converged)
          THEN "converged" ELSE "iterating"
    /\ UNCHANGED <<solveKind, cashFlows>>
    /\ UNCHANGED solveRest

\* the budget is spent: OptimizationFailure or NonConvergenceError
SolveGiveUp ==
    /\ solvePhase = "iterating"
    /\ ~BudgetLeft(iterations)
    /\ solvePhase' = "failed"
    /\ UNCHANGED <<solveKind, cashFlows, bracket, iterations>>
    /\ UNCHANGED solveRest

SolveStep == (\E converged \in BOOLEAN : SolveIterate(converged)) \/ SolveGiveUp

InitSolver == InitApp /\ storage = <<>> /\ InitAux

NextSolver ==
    \/ \E pv \in PvInputs : \E fv \in FvInputs : StartRateSearch(<<pv, fv>>)
    \/ StartOptimizer
    \/ \E converged \in BOOLEAN : SolveIterate(converged)
    \/ SolveGiveUp

\* the loop keeps running while it can: a solver is a running computation
SpecSolver == InitSolver /\ [][NextSolver]_vars /\ WF_vars(SolveStep)

SolveExits == {"converged", "failed"}

\* C17: a solver's loop never runs more than MaxIterations iterations, it
\* leaves only through convergence or failure, and once started it always
\* leaves
C17_SolversTerminate ==
    /\ [](iterations <= MaxIterations)
    /\ [][(solvePhase = "iterating" /\ solvePhase' # "iterating")
             => solvePhase' \in SolveExits]_vars
    /\ (solvePhase = "iterating") ~> (solvePhase \in SolveExits)

\* C17: a rate search that spent its whole budget without converging
C17_Witness ==
    /\ solveKind = "rate" /\ solvePhase = "failed"
    /\ iterations = MaxIterations


---------------------------------------------------------------------------
(* The portfolios panel with clicks that arrive faster than the page        *)
(* re-renders, and the pairing of tickers and weights in the payload        *)

\* two clicks on the × of portfolios i and j of one render, both handled
\* before the re-render: each handler checks the portfolios.length of the
\* render it was created in (line 149), each updater filters the latest list
\* (line 150)
removePortfolioClicks(i, j) ==
    /\ Len(portfolios) > 1
    /\ EditPortfolios(RemoveAt(RemoveAt(portfolios, i), j))

\* a portfolio whose first row's ticker was cleared after its weights were
\* typed (addTicker, setTicker, setWeight), as handleSaveToFile writes it
SkippedRowPortfolio ==
    [name |-> "Mix", tickers |-> <<<<>>, VTI, BND>>,
     weights |-> <<JsNum(Rat(1, 2)), JsNum(Rat(3, 10)), JsNum(Rat(1, 5))>>]
PairingFile == ObjectSnap([NoFields EXCEPT !.portfolios = <<<<SkippedRowPortfolio>>>>])

\* the updater of removeTicker (lines 166-175), on the latest list p
RemoveTickerUpdate(p, portIndex, tickIndex) ==
    LET port == p[portIndex]
        tickers == RemoveAt(port.tickers, tickIndex)
        weights == RemoveAt(port.weights, tickIndex)
    IN  IF Len(port.tickers) <= 1 THEN p
        ELSE [p EXCEPT ![portIndex] =
                 [port EXCEPT !.tickers = tickers,
                              !.weights = AsWeights(normalizeWeights(weights, Len(tickers)))]]

\* two clicks on the × of rows j and k of one render of portfolio i, both
\* handled before the re-render: the second updater sees the first one's list
removeTickerClicks(i, j, k) ==
    /\ Len(portfolios[i].tickers) > 1
    /\ EditPortfolios(RemoveTickerUpdate(RemoveTickerUpdate(portfolios, i, j), i, k))

\* a hand-edited file whose only ticker is a space
SpaceRowPortfolio ==
    [name |-> "Cash", tickers |-> <<<<" ">>>>, weights |-> <<JsNum(Num(1))>>]
SpaceRowFile == ObjectSnap([NoFields EXCEPT !.portfolios = <<<<SpaceRowPortfolio>>>>])

NextPanel ==
    \/ NextPortfolio
    \/ \E i \in 1..Len(portfolios) : \E j \in 1..Len(portfolios) :
          removePortfolioClicks(i, j)
    \/ \E i \in 1..Len(portfolios) : \E j \in Rows(i) : \E k \in Rows(i) :
          removeTickerClicks(i, j, k)
    \/ handleLoadFromFile(PairingFile)
    \/ handleLoadFromFile(SpaceRowFile)
    \/ Reload

SpecPanel == InitPage /\ [][NextPanel]_vars

\* C18: the portfolios list is never empty
C18_AtLeastOnePortfolio == Len(portfolios) >= 1

\* the rows of p that runBacktest keeps: the ones with a ticker
KeptRows(p) ==
    SelectSeq([k \in 1..Len(p.tickers) |-> k], LAMBDA k : p.tickers[k] # <<>>)

\* the weight typed in row k of p
RowWeight(p, k) == ToNumber(p.weights[k])

\* p has a weight for every row, and the kept rows' weights are numbers >= 0
\* with a positive sum
PlainWeights(p) ==
    /\ Len(p.weights) = Len(p.tickers)
    /\ \A k \in 1..Len(p.weights) :
          /\ p.weights[k][1] = "num"
          /\ IsFinite(RowWeight(p, k)) /\ JsLe(Num(0), RowWeight(p, k))
    /\ JsLt(Num(0), SumNums([k \in 1..Len(KeptRows(p)) |-> RowWeight(p, KeptRows(p)[k])]))

\* each kept row's own weight over the sum of the kept rows' weights
OwnWeights(p) ==
    LET rows == KeptRows(p)
        own == [k \in 1..Len(rows) |-> RowWeight(p, rows[k])]
    IN  [k \in 1..Len(rows) |-> JsDiv(own[k], SumNums(own))]

\* C19: in the body of a /api/backtest request, the weight sent with each
\* ticker is the weight of that ticker's row over the sum of the weights of
\* the rows that were kept
C19_OwnRowWeights ==
    (wire # <<>> /\ wire[1].url = "/api/backtest") =>
        LET sent == wire[1].body.portfolios
            kept == SelectSeq(portfolios, LAMBDA p : KeptRows(p) # <<>>)
        IN  \A i \in 1..Len(kept) :
                PlainWeights(kept[i]) =>
                    [k \in 1..Len(sent[i].weights) |-> ToNumber(sent[i].weights[k])]
                        = OwnWeights(kept[i])

---------------------------------------------------------------------------
(* The edits of the portfolios list, from the default state *)

NextEdits ==
    \/ MountEffects
    \/ MountRerender
    \/ addPortfolio
    \/ \E i \in 1..Len(portfolios) : removePortfolio(i)
    \/ \E i \in 1..Len(portfolios) : addTicker(i)
    \/ \E i \in 1..Len(portfolios) : \E j \in Rows(i) : removeTicker(i, j)
    \/ \E i \in 1..Len(portfolios) : \E j \in Rows(i) : \E t \in SymbolTexts :
          setTicker(i, j, t)
    \/ \E i \in 1..Len(portfolios) : \E j \in Rows(i) : \E t \in WeightTyped :
          setWeight(i, j, WeightInputValue(t))
    \/ \E i \in 1..Len(portfolios) : \E t \in NameTexts : updatePortfolio(i, t)

SpecEdits == InitPage /\ [][NextEdits]_vars

\* C20: every portfolio has at least one ticker row and as many weights as
\* tickers
C20_TickerWeightPairs ==
    \A i \in 1..Len(portfolios) :
        /\ Len(portfolios[i].tickers) >= 1
        /\ Len(portfolios[i].weights) = Len(portfolios[i].tickers)

\* C20: after MaxEdits edits there are two portfolios, the first with a row
\* added
C20_Witness ==
    /\ edits = MaxEdits /\ Len(portfolios) = 2
    /\ Len(portfolios[1].tickers) = 3


---------------------------------------------------------------------------
(* removeTicker, lines 165-176 *)

\* the weights of portfolio p as numbers
WeightNumbers(p) == [k \in 1..Len(p.weights) |-> ToNumber(p.weights[k])]

\* what removeTicker(i, j) promises for a step on a portfolio with more than
\* one row: row j is gone, the weights left are >= 0 and sum to 1, and they
\* keep their proportions when their sum was positive
RemoveTickerPost(i, j) ==
    LET old == portfolios[i]
        new == portfolios'[i]
        rest == RemoveAt(WeightNumbers(old), j)
    IN  /\ new.tickers = RemoveAt(old.tickers, j)
        /\ ValidWeights(WeightNumbers(new), Len(new.tickers))
        /\ JsLt(Num(0), SumNums(rest)) =>
              \A k \in 1..Len(rest) :
                  WeightNumbers(new)[k] = JsDiv(rest[k], SumNums(rest))
        /\ \A m \in 1..Len(portfolios) : m # i => portfolios'[m] = portfolios[m]

\* C21: removeTicker(i, j) on a portfolio with more than one row removes row
\* j and renormalizes the weights left, and on a portfolio with one row the
\* updater returns the list it was given
C21_RemoveTickerRenormalizes ==
    /\ [][\A i \in 1..Len(portfolios) : \A j \in Rows(i) :
             removeTicker(i, j) => RemoveTickerPost(i, j)]_vars
    /\ [](\A i \in 1..Len(portfolios) :
             Len(portfolios[i].tickers) = 1 =>
                 RemoveTickerUpdate(portfolios, i, 1) = portfolios)


---------------------------------------------------------------------------
(* Names: the payload's portfolio names and the Benchmark marking,         *)
(* lines 218, 392, 527 and 597-599                                         *)

\* the name of the benchmark the engine adds to every backtest
BenchmarkName == "S&P 500"

\* C22: the portfolio names in the body of a /api/backtest request are
\* pairwise distinct, and none is the benchmark's name
C22_PayloadNamesDistinct ==
    (wire # <<>> /\ wire[1].url = "/api/backtest") =>
        LET sent == wire[1].body.portfolios
        IN  /\ \A i, j \in 1..Len(sent) : i # j => sent[i].name # sent[j].name
            /\ \A i \in 1..Len(sent) : sent[i].name # BenchmarkName


\* isBenchmark, line 392
isBenchmark(name) == name = BenchmarkName

\* the metrics rows the engine returns for a request body: one per portfolio,
\* under the portfolio's name, and the implicit benchmark's
EngineMetrics(body) ==
    [i \in 1..(Len(body.portfolios) + 1) |->
        IF i <= Len(body.portfolios)
        THEN [name |-> body.portfolios[i].name, implicit |-> FALSE]
        ELSE [name |-> BenchmarkName, implicit |-> TRUE]]

\* C23: of the metrics rows of a backtest request, the results table marks as
\* benchmark exactly the implicit benchmark's row
C23_BenchmarkMarking ==
    (wire # <<>> /\ wire[1].url = "/api/backtest") =>
        \A i \in 1..Len(EngineMetrics(wire[1].body)) :
            LET row == EngineMetrics(wire[1].body)[i]
            IN  isBenchmark(row.name) <=> row.implicit


---------------------------------------------------------------------------
(* runBacktest's local validation, lines 209-230 *)

\* a ticker with nothing but white space in it
Blank(t) == Trim(t) = <<>>

\* the tickers of p that are not blank, as they are sent
NonBlankTickers(p) ==
    LET kept == SelectSeq(p.tickers, LAMBDA t : ~Blank(t))
    IN  [k \in 1..Len(kept) |-> ToUpperCase(Trim(kept[k]))]

\* what a click on Backtest promises: with no non-blank ticker anywhere no
\* request, the error, no result and loading false; otherwise a request with
\* the portfolios that have a non-blank ticker, in order
BacktestValidation ==
    LET kept == SelectSeq(portfolios, LAMBDA p : NonBlankTickers(p) # <<>>)
    IN  IF kept = <<>>
        THEN /\ wire' = <<>>
             /\ error' = <<ErrNoPortfolio>>
             /\ result' = <<>>
             /\ loading' = FALSE
        ELSE /\ wire' # <<>> /\ wire'[1].url = "/api/backtest"
             /\ Len(wire'[1].body.portfolios) = Len(kept)
             /\ \A i \in 1..Len(kept) :
                   wire'[1].body.portfolios[i].tickers = NonBlankTickers(kept[i])

\* C24: a click on Backtest sends no request and reports the error when no
\* portfolio has a non-blank ticker, and otherwise sends the portfolios that
\* have one
C24_BacktestValidation == [][runBacktest => BacktestValidation]_vars


---------------------------------------------------------------------------
(* handleLoadFromFile with a file that is no snapshot, lines 408-430 *)

\* the files whose content is no JSON, or JSON that is no object
UnreadableFiles == {InvalidSnap, NullSnap, PrimSnap}

\* C25: choosing a file that is no JSON, or JSON that is no object, sets the
\* error 'Invalid file. Use a previously saved Testfolio JSON.' and leaves
\* the saved fields (portfolios, dates, starting value, frequency, inflation
\* flag and result) as they were
C25_UnreadableFileRejected ==
    [][\A file \in UnreadableFiles :
          handleLoadFromFile(file) =>
              error' = <<ErrInvalidFile>> /\ UNCHANGED savedVars]_vars


---------------------------------------------------------------------------
(* The five tools that fetch, side by side: Backtester, Asset Analyzer,     *)
(* Portfolio Optimizer, Efficient Frontier and Rebalancing Sensitivity      *)

\* the click on Analyze (disabled while analyzerLoading), up to the fetch
runAssetAnalyzer ==
    /\ phase = "ready"
    /\ ~Disabled(analyzerLoading)
    /\ analyzerResult' = <<>>
    /\ analyzerLoading' = TRUE
    /\ error' = <<>>
    /\ analyzerPending' = TRUE
    /\ wire' = <<[url |-> "/api/asset_analyzer",
                  body |-> [ticker |-> Trim(analyzerTicker), start_date |-> startDate,
                            end_date |-> endDate]]>>
    /\ download' = <<>>
    /\ UNCHANGED <<savedVars, pageVars, backtestVars, toolVars, nwVars, edits,
                   apiVars, engineVars, analyzerTicker>>

\* a variant of AnalyzerResponse without the finally block: the flag is
\* reset on the line after a parsed response only
AnalyzerResponse_noFinally(resp) ==
    /\ phase = "ready"
    /\ analyzerPending
    /\ analyzerPending' = FALSE
    /\ analyzerLoading' = (resp.kind # "json")
    /\ error' = ErrorAfter(resp)
    /\ analyzerResult' = IF StoresResult(resp) THEN <<resp.data>> ELSE analyzerResult
    /\ Quiet
    /\ UNCHANGED <<savedVars, storage, backtestVars, toolVars, nwVars, edits,
                   apiVars, engineVars, analyzerTicker>>
\* the rest of runAssetAnalyzer, once the fetch has settled with resp
AnalyzerResponse(resp) ==
    /\ phase = "ready"
    /\ analyzerPending
    /\ analyzerPending' = FALSE
    /\ analyzerLoading' = FALSE
    /\ error' = ErrorAfter(resp)
    /\ analyzerResult' = IF StoresResult(resp) THEN <<resp.data>> ELSE analyzerResult
    /\ Quiet
    /\ UNCHANGED <<savedVars, storage, backtestVars, toolVars, nwVars, edits,
                   apiVars, engineVars, analyzerTicker>>

\* how a fetch can settle: a body without an error field, a body with one, a
\* body that is no JSON, no response at all
SettledResponses ==
    {JsonResp(OkData), JsonResp(ErrData("No data for ticker")), UnparsableResp,
     FailedResp}

\* a saved file whose only portfolio has its ticker field cleared
BlankPortfolio == [name |-> "Empty", tickers |-> <<<<>>>>, weights |-> <<JsNum(Num(1))>>]
BlankFile == ObjectSnap([NoFields EXCEPT !.portfolios = <<<<BlankPortfolio>>>>])

\* a single ticker typed into a tickers field, and a cleared field
OneTickerText == <<"V", "T", "I">>

BacktestSettles == \E r \in SettledResponses : BacktestResponse(r)
AnalyzerSettles == \E r \in SettledResponses : AnalyzerResponse(r)
OptimizerSettles == \E r \in SettledResponses : OptimizerResponse(r)
FrontierSettles == \E r \in SettledResponses : FrontierResponse(r)
RebalSettles == \E r \in SettledResponses : RebalResponse(r)

NextTools ==
    \/ MountEffects
    \/ MountRerender
    \/ handleLoadFromFile(BlankFile)
    \/ SetOptimizerTickers(OneTickerText)
    \/ SetFrontierTickers(OneTickerText)
    \/ SetRebalTickers(<<>>)
    \/ runBacktest
    \/ runAssetAnalyzer
    \/ runOptimizer
    \/ runEfficientFrontier
    \/ runRebalancingSensitivity
    \/ BacktestSettles
    \/ AnalyzerSettles
    \/ OptimizerSettles
    \/ FrontierSettles
    \/ RebalSettles

\* every fetch settles: the browser resolves or rejects the promise
SpecTools ==
    /\ InitPage /\ [][NextTools]_vars
    /\ WF_vars(BacktestSettles) /\ WF_vars(AnalyzerSettles)
    /\ WF_vars(OptimizerSettles) /\ WF_vars(FrontierSettles)
    /\ WF_vars(RebalSettles)

\* C26: a tool's loading flag is true exactly while a request of the tool
\* awaits its response (so it is true from the start of the call, and false
\* after a validation early return), and every loading flag is false again
\* and again: one that is true is eventually reset
C26_LoadingResets ==
    /\ [](/\ loading = backtestPending
          /\ analyzerLoading = analyzerPending
          /\ optimizerLoading = optimizerPending
          /\ frontierLoading = frontierPending
          /\ rebalLoading = rebalPending)
    /\ []<>~loading
    /\ []<>~analyzerLoading
    /\ []<>~optimizerLoading
    /\ []<>~frontierLoading
    /\ []<>~rebalLoading

\* C26: an analysis has come back with a result, and a later click on
\* Optimize with one ticker has returned early, both with the flag reset
C26_Witness ==
    /\ analyzerResult # <<>> /\ ~analyzerLoading
    /\ error = <<ErrTwoTickers>> /\ ~optimizerLoading


\* the same tools and steps, with no assumption on when a fetch settles
SpecRequests == InitPage /\ [][NextTools]_vars

\* C27: a tool sends a request only in a state where no request of that tool
\* awaits its response, so at most one request per tool is in flight; and
\* while one is, the tool's loading flag (the button's disabled attribute) is
\* true
C27_OneRequestPerTool ==
    /\ [][/\ Sends("/api/backtest") => ~backtestPending
          /\ Sends("/api/asset_analyzer") => ~analyzerPending
          /\ Sends("/api/optimizer") => ~optimizerPending
          /\ Sends("/api/efficient_frontier") => ~frontierPending
          /\ Sends("/api/rebalancing_sensitivity") => ~rebalPending]_vars
    /\ [](/\ backtestPending => loading
          /\ analyzerPending => analyzerLoading
          /\ optimizerPending => optimizerLoading
          /\ frontierPending => frontierLoading
          /\ rebalPending => rebalLoading)

\* C27: a request of each of the five tools awaits its response at once
C27_Witness ==
    /\ backtestPending /\ analyzerPending /\ optimizerPending
    /\ frontierPending /\ rebalPending


---------------------------------------------------------------------------
(* The TVM calculator's requests and the order of their responses *)

\* what the page shows after runTvm's clearing of tvmResult and error and the
\* callbacks of a fetch that settled with resp
OutcomeOf(resp) ==
    [tvmResult |-> IF StoresResult(resp) THEN <<resp.data>> ELSE <<>>,
     error |-> IF StoresResult(resp) THEN <<>> ELSE ErrorAfter(resp)]

\* C28: once no /api/tvm request awaits its response, tvmResult and error are
\* an outcome of the request sent last
C28_LatestSolveShown ==
    (InFlight = 0 /\ tvmLast # <<>>) =>
        \E r \in TvmResponses(tvmLast[1]) :
            OutcomeOf(r) = [tvmResult |-> tvmResult, error |-> error]


---------------------------------------------------------------------------
(* The error state the tools share *)

\* whether this step is a response whose body a tool stores as its result
StoresBacktest == backtestPending /\ ~backtestPending' /\ result' # <<>>
StoresAnalysis == analyzerPending /\ ~analyzerPending' /\ analyzerResult' # <<>>
StoresOptimum == optimizerPending /\ ~optimizerPending' /\ optimizerResult' # <<>>
StoresFrontier == frontierPending /\ ~frontierPending' /\ frontierResult' # <<>>
StoresSensitivity == rebalPending /\ ~rebalPending' /\ rebalResult' # <<>>

\* C29: when a tool stores the result of a successful response, error is
\* null
C29_NoErrorWithResult ==
    [][(StoresBacktest \/ StoresAnalysis \/ StoresOptimum \/ StoresFrontier
          \/ StoresSensitivity) => error' = <<>>]_vars


---------------------------------------------------------------------------
(* What an edit of one portfolio leaves alone *)

\* this step leaves every portfolio but the i-th, and the settings and the
\* result, as they are
OthersUnchanged(i) ==
    /\ Len(portfolios') = Len(portfolios)
    /\ \A k \in 1..Len(portfolios) : k # i => portfolios'[k] = portfolios[k]
    /\ UNCHANGED <<startDate, endDate, startingValue, rebalanceFreq, adjustInflation,
                   result>>

\* the weight in row k of portfolio p (<<>> when the list has none for it)
WeightAt(p, k) == IF k <= Len(p.weights) THEN <<p.weights[k]>> ELSE <<>>

===========================================================================
